---- MODULE Spec2Model ----
(***************************************************************************)
(* Model of the session ledger (services/context_manager.py) and of the    *)
(* orchestrator execute() (services/executor.py) of the multi-agent scene  *)
(* simulator.                                                              *)
(*                                                                         *)
(* Conventions                                                             *)
(*   - Optional[T] is a sequence of length <= 1: <<>> is Python's None.    *)
(*   - The component registry is a Python dict: it is kept as a sequence   *)
(*     of [key, value] entries in insertion order, an assignment to an     *)
(*     existing key replacing the value in place.                          *)
(*   - Scores are hundredths (0.9 is 90).                                  *)
(*   - The timestamp fields hold the wall clock of the call; no stored     *)
(*     field is computed from them and they are left out of the records.   *)
(***************************************************************************)
EXTENDS Integers, Sequences, FiniteSets, TLC

VARIABLES
    \* ContextManager fields (context_manager.py:71-77)
    initial_requirement,
    iterations,
    current_iteration,
    final_result,
    scene_state_history,
    component_registry,
    \* the last ledger method that was called: its name, and the arguments of
    \* start_iteration and update_component_progress
    last_call,
    \* for each registry key, the status passed by the most recent
    \* update_component_progress made with an iteration open ("" when none)
    last_status,
    \* execute(): position, inputs and locals (executor.py:16-255)
    pc,
    requirement,
    curr_scene_info,
    curr_viewport_screenshot,
    detailed_scene_state,
    fault,
    \* the collaborators execute() talks to: the score the evaluator returns
    \* in each cycle, the subtask list the planner returns, the positions of
    \* the subtasks whose execute_blender_code call raises
    evaluator_stub,
    planner_stub,
    executor_raises,
    \* the file system: for each path, the JSON document save_to_file last
    \* wrote there (None while the file does not exist)
    files,
    \* for each path, the initial requirement, the number of sealed iterations
    \* and the final result of the ledger that last wrote the file
    written_by,
    \* the ledger of an earlier ContextManager of the process, kept by its
    \* owner when a second ContextManager is constructed (None before that)
    other,
    \* a call of one of the pure functions of the services (scene parser,
    \* failure analyzer, environment probe): its argument and what it returned
    arg,
    ret,
    \* execute(): the requirement the cycles work on (executor.py:49 and
    \* 233-238; None until it is bound), and the calls execute() has made to
    \* the planner, the generator, the 3D tool's executor and the evaluator
    scene_requirement,
    calls,
    \* the attributes of the prediction the planner's predictor returns
    \* (lead_agent.py:64) and of the one the evaluator's predictor returns
    \* (scene_evaluator.py:53)
    output,
    evaluate_result

ledger == <<initial_requirement, iterations, current_iteration, final_result,
            scene_state_history, component_registry>>
session == <<initial_requirement, iterations, final_result,
             scene_state_history, component_registry>>
exec == <<pc, requirement, curr_scene_info, curr_viewport_screenshot,
          detailed_scene_state, fault, evaluator_stub, planner_stub,
          executor_raises, files, written_by, other, arg, ret,
          scene_requirement, calls, output, evaluate_result>>
vars == <<initial_requirement, iterations, current_iteration, final_result,
          scene_state_history, component_registry, last_call, last_status,
          pc, requirement, curr_scene_info, curr_viewport_screenshot,
          detailed_scene_state, fault, evaluator_stub, planner_stub,
          executor_raises, files, written_by, other, arg, ret,
          scene_requirement, calls, output, evaluate_result>>

----------------------------------------------------------------------------
(* Bounds of the model *)

\* a ledger holds at most this many records (iterations, stored entries,
\* snapshots, registry entries) before the model stops adding to it
MaxRecords == 4

(* Small input domains *)
\* iteration numbers a caller passes to start_iteration
IterationNumbers == {1, 2}
Requirements == {"a cozy room"}
SubTaskLists == {<<"add lamp">>}
RawResponses == {"raw"}
Scores == {10, 95}
Suggestions == {"add a rug"}
ToolNames == {"get_scene_info"}
ComponentTypes == {"light", "object"}
ComponentNames == {"lamp"}
Statuses == {"missing", "complete"}
\* details argument: "None" is the default None, the others are dicts
DetailsArgs == {"None", "{}"}
\* scene-state dicts handed to store_scene_state, by their counts
SceneDicts == {[objects |-> 1, lights |-> 1, cameras |-> 0, materials |-> 0]}
FinalResults == {[success |-> TRUE, iterations |-> 1]}
\* the output fields of TaskDecomposer (lead_agent.py:33) and of
\* EvaluateResult (scene_evaluator.py:33-44)
TaskDecomposerFields == {"sub_tasks"}
EvaluateResultFields ==
    {"match_score", "component_breakdown", "missing_components", "next_priority"}
\* the predictions of the model: complete ones, and ones that lack a field
Outputs == {TaskDecomposerFields, {}}
EvaluateResults ==
    {EvaluateResultFields, EvaluateResultFields \ {"match_score"},
     EvaluateResultFields \ {"next_priority"}}

----------------------------------------------------------------------------
(* Helpers *)

None == <<>>
Some(v) == <<v>>
IsOpen == current_iteration # None
Open == current_iteration[1]

\* `details or {}` (context_manager.py:153)
DetailsOrEmpty(d) == IF d \in {"None", "{}"} THEN "{}" ELSE d

\* f"{component_type}:{component_name}" (context_manager.py:158)
RegistryKey(t, n) == <<t, n>>
RegistryKeys == {RegistryKey(t, n) : t \in ComponentTypes, n \in ComponentNames}

RECURSIVE KeyIndex(_, _, _)
\* position of key k in registry r at or after i, 0 when absent
KeyIndex(r, k, i) ==
    IF i > Len(r) THEN 0
    ELSE IF r[i].key = k THEN i
    ELSE KeyIndex(r, k, i + 1)

HasKey(r, k) == KeyIndex(r, k, 1) # 0
Lookup(r, k) == r[KeyIndex(r, k, 1)].value

\* a dict assignment that behaved like setdefault: an existing key keeps
\* its value
DictSet_setdefault(r, k, v) ==
    IF HasKey(r, k) THEN r ELSE Append(r, [key |-> k, value |-> v])

\* dict.__setitem__: replace in place, or insert at the end
DictSet(r, k, v) ==
    IF HasKey(r, k)
    THEN [r EXCEPT ![KeyIndex(r, k, 1)] = [key |-> k, value |-> v]]
    ELSE Append(r, [key |-> k, value |-> v])

\* IterationContext(...) of start_iteration (context_manager.py:83-92)
FreshIteration(n) ==
    [iteration |-> n,
     lead_agent_response |-> None,
     code_generation_tasks |-> <<>>,
     scene_evaluation |-> None,
     tool_results |-> <<>>,
     scene_state |-> None,
     component_progress |-> <<>>]

IterSize(it) ==
    1 + Len(it.lead_agent_response) + Len(it.code_generation_tasks)
      + Len(it.scene_evaluation) + Len(it.tool_results)
      + Len(it.scene_state) + Len(it.component_progress)

RECURSIVE SumSizes(_)
SumSizes(s) == IF s = <<>> THEN 0 ELSE IterSize(Head(s)) + SumSizes(Tail(s))

LedgerSize ==
    SumSizes(iterations) + SumSizes(current_iteration)
      + Len(scene_state_history) + Len(component_registry)

Room == LedgerSize < MaxRecords

Called(op, args) == last_call' = [op |-> op, args |-> args]

----------------------------------------------------------------------------
(* ContextManager methods *)

\* context_manager.py:79-80
set_initial_requirement(r) ==
    /\ initial_requirement' = r
    /\ UNCHANGED <<iterations, current_iteration, final_result,
                   scene_state_history, component_registry>>

\* a start_iteration that renumbered an iteration left open instead of
\* replacing it
start_iteration_reuse(n) ==
    /\ current_iteration' = IF IsOpen
                            THEN Some([Open EXCEPT !.iteration = n])
                            ELSE Some(FreshIteration(n))
    /\ UNCHANGED <<initial_requirement, iterations, final_result,
                   scene_state_history, component_registry>>

\* context_manager.py:82-92
start_iteration(n) ==
    /\ current_iteration' = Some(FreshIteration(n))
    /\ UNCHANGED <<initial_requirement, iterations, final_result,
                   scene_state_history, component_registry>>

\* context_manager.py:94-100
store_lead_response(sub_tasks, raw_response) ==
    /\ IF IsOpen
       THEN current_iteration' = Some([Open EXCEPT !.lead_agent_response =
                Some([sub_tasks |-> sub_tasks, raw_response |-> raw_response])])
       ELSE UNCHANGED current_iteration
    /\ UNCHANGED <<initial_requirement, iterations, final_result,
                   scene_state_history, component_registry>>

\* context_manager.py:102-111
store_code_generation(task_name, instruction, code, raw_response) ==
    /\ IF IsOpen
       THEN current_iteration' = Some([Open EXCEPT !.code_generation_tasks =
                Append(@, [task_name |-> task_name, instruction |-> instruction,
                           generated_code |-> code, raw_response |-> raw_response])])
       ELSE UNCHANGED current_iteration
    /\ UNCHANGED <<initial_requirement, iterations, final_result,
                   scene_state_history, component_registry>>

\* a store_evaluation that fell back to the last sealed iteration when no
\* iteration is open
store_evaluation_into_last_sealed(match_score, suggestion) ==
    /\ IF IsOpen
       THEN /\ current_iteration' = Some([Open EXCEPT !.scene_evaluation =
                  Some([match_score |-> match_score, suggestion |-> suggestion])])
            /\ UNCHANGED iterations
       ELSE /\ UNCHANGED current_iteration
            /\ IF iterations = <<>>
               THEN UNCHANGED iterations
               ELSE iterations' = [iterations EXCEPT ![Len(iterations)].scene_evaluation =
                       Some([match_score |-> match_score, suggestion |-> suggestion])]
    /\ UNCHANGED <<initial_requirement, final_result,
                   scene_state_history, component_registry>>

\* context_manager.py:113-119
store_evaluation(match_score, suggestion) ==
    /\ IF IsOpen
       THEN current_iteration' = Some([Open EXCEPT !.scene_evaluation =
                Some([match_score |-> match_score, suggestion |-> suggestion])])
       ELSE UNCHANGED current_iteration
    /\ UNCHANGED <<initial_requirement, iterations, final_result,
                   scene_state_history, component_registry>>

\* context_manager.py:121-129
store_tool_result(tool_name, result, metadata) ==
    /\ IF IsOpen
       THEN current_iteration' = Some([Open EXCEPT !.tool_results =
                Append(@, [tool_name |-> tool_name, result |-> result,
                           metadata |-> metadata])])
       ELSE UNCHANGED current_iteration
    /\ UNCHANGED <<initial_requirement, iterations, final_result,
                   scene_state_history, component_registry>>

\* a store_scene_state whose history append sat outside the
\* `if self.current_iteration:` block
store_scene_state_unguarded(scene_state) ==
    /\ IF IsOpen
       THEN current_iteration' = Some([Open EXCEPT !.scene_state = Some(scene_state)])
       ELSE UNCHANGED current_iteration
    /\ scene_state_history' = Append(scene_state_history, scene_state)
    /\ UNCHANGED <<initial_requirement, iterations, final_result, component_registry>>

\* context_manager.py:131-143
store_scene_state(scene_state) ==
    /\ IF IsOpen
       THEN /\ current_iteration' = Some([Open EXCEPT !.scene_state = Some(scene_state)])
            /\ scene_state_history' = Append(scene_state_history, scene_state)
       ELSE UNCHANGED <<current_iteration, scene_state_history>>
    /\ UNCHANGED <<initial_requirement, iterations, final_result, component_registry>>

\* ComponentProgress(...) (context_manager.py:149-156)
Progress(component_type, component_name, status, details, n) ==
    [component_type |-> component_type,
     component_name |-> component_name,
     status |-> status,
     details |-> DetailsOrEmpty(details),
     iteration_added |-> n]

\* context_manager.py:145-158
update_component_progress(component_type, component_name, status, details) ==
    /\ IF IsOpen
       THEN LET progress == Progress(component_type, component_name, status,
                                     details, Open.iteration)
            IN /\ current_iteration' = Some([Open EXCEPT !.component_progress =
                                               Append(@, progress)])
               /\ component_registry' =
                    DictSet(component_registry,
                            RegistryKey(component_type, component_name), progress)
       ELSE UNCHANGED <<current_iteration, component_registry>>
    /\ UNCHANGED <<initial_requirement, iterations, final_result, scene_state_history>>

\* a complete_iteration that forgot to clear the open slot
complete_iteration_keep_open ==
    /\ IF IsOpen
       THEN iterations' = Append(iterations, Open)
       ELSE UNCHANGED iterations
    /\ UNCHANGED <<initial_requirement, current_iteration, final_result,
                   scene_state_history, component_registry>>

\* context_manager.py:160-163
complete_iteration ==
    /\ IF IsOpen
       THEN /\ iterations' = Append(iterations, Open)
            /\ current_iteration' = None
       ELSE UNCHANGED <<iterations, current_iteration>>
    /\ UNCHANGED <<initial_requirement, final_result, scene_state_history,
                   component_registry>>

\* context_manager.py:165-166
set_final_result(result) ==
    /\ final_result' = Some(result)
    /\ UNCHANGED <<initial_requirement, iterations, current_iteration,
                   scene_state_history, component_registry>>

----------------------------------------------------------------------------
(* get_context_for_llm (context_manager.py:168-203).  The text is kept as   *)
(* the list context_parts that the method joins with newlines; a part is    *)
(* the tuple of the values its f-string formats.                            *)

\* the fields of the ledger, as one value
ThisLedger ==
    [initial_requirement |-> initial_requirement,
     iterations |-> iterations,
     current_iteration |-> current_iteration,
     final_result |-> final_result,
     scene_state_history |-> scene_state_history,
     component_registry |-> component_registry]

\* context_manager.py:176-181
SceneStateParts(history) ==
    IF history = <<>> THEN <<>>
    ELSE LET current_state == history[Len(history)]
         IN << <<"Objects", current_state.objects>>,
               <<"Lights", current_state.lights>>,
               <<"Cameras", current_state.cameras>>,
               <<"Materials", current_state.materials>> >>

\* context_manager.py:186-187: the items of the registry in dict order
RegistryParts(registry) ==
    [i \in 1..Len(registry) |-> <<"Progress", registry[i].key, registry[i].value.status>>]

\* context_manager.py:192-201, for one sealed iteration
IterationParts(it) ==
    << <<"Iteration", it.iteration>> >>
    \o (IF it.scene_evaluation # None
        THEN << <<"Evaluation Score", it.scene_evaluation[1].match_score>>,
                <<"Suggestion", it.scene_evaluation[1].suggestion>> >>
        ELSE <<>>)
    \o (IF it.component_progress # <<>>
        THEN << <<"Components updated:">> >>
             \o [i \in 1..Len(it.component_progress) |->
                   <<"  - ", it.component_progress[i].component_type,
                     it.component_progress[i].component_name,
                     it.component_progress[i].status>>]
        ELSE <<>>)

RECURSIVE IterationsParts(_)
\* context_manager.py:191-201
IterationsParts(its) ==
    IF its = <<>> THEN <<>>
    ELSE IterationParts(Head(its)) \o IterationsParts(Tail(its))

\* context_manager.py:168-203, on the fields L of a ledger
get_context_for_llm(L) ==
    << <<"Initial Requirement", L.initial_requirement>>,
       <<"=== CURRENT SCENE STATE ===">> >>
    \o SceneStateParts(L.scene_state_history)
    \o << <<"=== COMPONENT PROGRESS ===">> >>
    \o RegistryParts(L.component_registry)
    \o << <<"=== PREVIOUS ITERATIONS ===">> >>
    \o IterationsParts(L.iterations)

----------------------------------------------------------------------------
(* Persistence: get_full_context, save_to_file, create_checkpoint and       *)
(* load_from_file (context_manager.py:205-249, 266-377).  A JSON document   *)
(* is kept as the value json.load returns for it: null is None, an object   *)
(* is a record or, for the registry, the list of its members in file order. *)

\* f"checkpoint_{iteration}_{now}.json" (context_manager.py:246-247), without
\* the time of the call
CheckpointPath(iteration) == "checkpoint_" \o ToString(iteration) \o ".json"

\* the paths the model writes to: the path execute passes to save_to_file
\* (executor.py:253) and the checkpoint paths
FilePaths == {"execution_context.json"} \cup {CheckpointPath(n) : n \in 0..(MaxRecords + 1)}

NoFiles ==
    /\ files = [p \in FilePaths |-> None]
    /\ written_by = [p \in FilePaths |-> None]

\* one element of "iterations" in get_full_context (context_manager.py:224-233)
IterationToJson(it) ==
    [iteration |-> it.iteration,
     lead_agent_response |-> it.lead_agent_response,
     code_generation_tasks |-> it.code_generation_tasks,
     scene_evaluation |-> it.scene_evaluation,
     tool_results |-> it.tool_results,
     scene_state |-> it.scene_state,
     component_progress |-> it.component_progress]

\* a get_full_context that also listed the iteration still open
get_full_context_with_open ==
    [initial_requirement |-> initial_requirement,
     scene_state_history |-> scene_state_history,
     component_registry |-> component_registry,
     iterations |-> [i \in 1..(Len(iterations) + Len(current_iteration)) |->
                        IF i <= Len(iterations)
                        THEN IterationToJson(iterations[i])
                        ELSE IterationToJson(Open)],
     final_result |-> final_result]

\* context_manager.py:205-237; the open iteration is not part of it
get_full_context ==
    [initial_requirement |-> initial_requirement,
     scene_state_history |-> scene_state_history,
     component_registry |-> component_registry,
     iterations |-> [i \in 1..Len(iterations) |-> IterationToJson(iterations[i])],
     final_result |-> final_result]

\* what the ledger that writes a file holds of the three fields a reload is
\* compared on
WriterSummary ==
    [initial_requirement |-> initial_requirement,
     n_iterations |-> Len(iterations),
     final_result |-> final_result]

\* context_manager.py:239-242
save_to_file(filepath) ==
    /\ files' = [files EXCEPT ![filepath] = Some(get_full_context)]
    /\ written_by' = [written_by EXCEPT ![filepath] = Some(WriterSummary)]
    /\ UNCHANGED ledger

\* context_manager.py:244-249
create_checkpoint(iteration) == save_to_file(CheckpointPath(iteration))

\* the loop of context_manager.py:288-298 from member i on: each member of
\* the JSON object is assigned to its key
RECURSIVE LoadRegistry(_, _, _)
LoadRegistry(members, i, registry) ==
    IF i > Len(members) THEN registry
    ELSE LoadRegistry(members, i + 1,
                      DictSet(registry, members[i].key, members[i].value))

\* one pass of the loop of context_manager.py:302-377: an IterationContext
\* with empty fields, each filled when the document has a value for it
IterationFromJson(d) ==
    [iteration |-> d.iteration,
     lead_agent_response |-> IF d.lead_agent_response # None
                             THEN d.lead_agent_response ELSE None,
     code_generation_tasks |-> [i \in 1..Len(d.code_generation_tasks) |->
                                   d.code_generation_tasks[i]],
     scene_evaluation |-> IF d.scene_evaluation # None
                          THEN d.scene_evaluation ELSE None,
     tool_results |-> [i \in 1..Len(d.tool_results) |-> d.tool_results[i]],
     scene_state |-> IF d.scene_state # None THEN d.scene_state ELSE None,
     component_progress |-> [i \in 1..Len(d.component_progress) |->
                                d.component_progress[i]]]

\* context_manager.py:266-377.  open() of a path that does not exist raises
\* before any field is assigned; current_iteration is not assigned at all.
load_from_file(filepath) ==
    /\ IF files[filepath] = None
       THEN UNCHANGED <<initial_requirement, final_result, scene_state_history,
                        component_registry, iterations>>
       ELSE LET data == files[filepath][1]
            IN /\ initial_requirement' = data.initial_requirement
               /\ final_result' = data.final_result
               /\ scene_state_history' = [i \in 1..Len(data.scene_state_history) |->
                                             data.scene_state_history[i]]
               /\ component_registry' = LoadRegistry(data.component_registry, 1, <<>>)
               /\ iterations' = [i \in 1..Len(data.iterations) |->
                                    IterationFromJson(data.iterations[i])]
    /\ UNCHANGED <<current_iteration, files, written_by>>

----------------------------------------------------------------------------
(* A client that calls the ledger's methods in any order *)

\* ContextManager.__init__ (context_manager.py:71-77)
NewLedger ==
    /\ initial_requirement = ""
    /\ iterations = <<>>
    /\ current_iteration = None
    /\ final_result = None
    /\ scene_state_history = <<>>
    /\ component_registry = <<>>

Init ==
    /\ NewLedger
    /\ last_call = [op |-> "__init__", args |-> <<>>]
    /\ last_status = [k \in RegistryKeys |-> ""]
    /\ pc = "idle"
    /\ requirement = ""
    /\ curr_scene_info = <<>>
    /\ curr_viewport_screenshot = <<>>
    /\ detailed_scene_state = None
    /\ fault = "none"
    /\ evaluator_stub = <<>>
    /\ planner_stub = <<>>
    /\ executor_raises = {}
    /\ NoFiles
    /\ other = None
    /\ scene_requirement = None
    /\ calls = <<>>
    /\ output = TaskDecomposerFields
    /\ evaluate_result = EvaluateResultFields
    /\ arg = None
    /\ ret = None

CallSetInitialRequirement ==
    \E r \in Requirements :
        /\ set_initial_requirement(r)
        /\ Called("set_initial_requirement", <<>>)
        /\ UNCHANGED <<exec, last_status>>

CallStartIteration ==
    \E n \in IterationNumbers :
        /\ IsOpen \/ Room
        /\ start_iteration(n)
        /\ Called("start_iteration", <<n>>)
        /\ UNCHANGED <<exec, last_status>>

CallStoreLeadResponse ==
    \E st \in SubTaskLists, raw \in RawResponses :
        /\ IsOpen => (Room \/ Open.lead_agent_response # None)
        /\ store_lead_response(st, raw)
        /\ Called("store_lead_response", <<>>)
        /\ UNCHANGED <<exec, last_status>>

CallStoreCodeGeneration ==
    \E raw \in RawResponses :
        /\ IsOpen => Room
        /\ store_code_generation("add lamp", "put a lamp on the table", "code", raw)
        /\ Called("store_code_generation", <<>>)
        /\ UNCHANGED <<exec, last_status>>

CallStoreEvaluation ==
    \E s \in Scores, sg \in Suggestions :
        /\ IsOpen => (Room \/ Open.scene_evaluation # None)
        /\ store_evaluation(s, sg)
        /\ Called("store_evaluation", <<>>)
        /\ UNCHANGED <<exec, last_status>>

CallStoreToolResult ==
    \E t \in ToolNames :
        /\ IsOpen => Room
        /\ store_tool_result(t, "text", "{}")
        /\ Called("store_tool_result", <<>>)
        /\ UNCHANGED <<exec, last_status>>

CallStoreSceneState ==
    \E sd \in SceneDicts :
        /\ IsOpen => Room
        /\ store_scene_state(sd)
        /\ Called("store_scene_state", <<>>)
        /\ UNCHANGED <<exec, last_status>>

CallUpdateComponentProgress ==
    \E t \in ComponentTypes, n \in ComponentNames, s \in Statuses, d \in DetailsArgs :
        /\ IsOpen => Room
        /\ update_component_progress(t, n, s, d)
        /\ Called("update_component_progress", <<t, n, s>>)
        /\ last_status' = IF IsOpen
                          THEN [last_status EXCEPT ![RegistryKey(t, n)] = s]
                          ELSE last_status
        /\ UNCHANGED exec

CallCompleteIteration ==
    /\ complete_iteration
    /\ Called("complete_iteration", <<>>)
    /\ UNCHANGED <<exec, last_status>>

CallSetFinalResult ==
    \E r \in FinalResults :
        /\ set_final_result(r)
        /\ Called("set_final_result", <<>>)
        /\ UNCHANGED <<exec, last_status>>

Next ==
    \/ CallSetInitialRequirement
    \/ CallStartIteration
    \/ CallStoreLeadResponse
    \/ CallStoreCodeGeneration
    \/ CallStoreEvaluation
    \/ CallStoreToolResult
    \/ CallStoreSceneState
    \/ CallUpdateComponentProgress
    \/ CallCompleteIteration
    \/ CallSetFinalResult

Spec == Init /\ [][Next]_vars

----------------------------------------------------------------------------
(* SceneParser (scene_parser.py).  A text is the list of its lines; a line  *)
(* is the recognised key it starts with ("" when it starts with none) and   *)
(* the rest of the line.  A call returns [raised, value].                   *)

\* longest text given to the parser, in lines
MaxLines == 3

Line(key, value) == [key |-> key, value |-> value]
Returned(v) == [raised |-> FALSE, value |-> v]
Raised(e) == [raised |-> TRUE, value |-> e]

\* JSON documents, each on one line
JsonTexts ==
    {"{\"objects\": [{\"name\": \"Cube\", \"location\": [1, 2, 3]}]}",
     "{\"objects\": [{\"name\": \"Cube\", \"location\": [\"a\", 0, 0]}]}",
     "{\"lights\": [{\"name\": \"Sun\", \"location\": \"x\"}]}",
     "5"}

\* lines of line-oriented scene descriptions
TextLines ==
    {Line("Object:", "Cube"), Line("Light:", "Sun"), Line("Camera:", "Main"),
     Line("Location:", "(1, 2, 3)"), Line("Location:", "abc,1,2"),
     Line("Vertices:", "8"), Line("Vertices:", "many"),
     Line("Energy:", "bright"), Line("", ""), Line("", "an object here")}

\* inputs of parse_scene_info: a str (a text of up to MaxLines lines, or one
\* JSON document) or another value, given by its str()
StrInput(lines) == [type |-> "str", lines |-> lines]
ObjectInput(repr) == [type |-> "object", lines |-> <<Line("", repr)>>]
ParseInputs ==
    {StrInput(ls) : ls \in UNION {[1..n -> TextLines] : n \in 0..MaxLines}}
    \cup {StrInput(<<Line("", j)>>) : j \in JsonTexts}
    \cup {ObjectInput("{'objects': [{'name': 'Cube'}]}"), ObjectInput("None")}

\* int(text) and float(text) succeed (scene_parser.py:298, 301, 325, 351)
IsNumber(text) == text \in {"8"}
NumberOf(text) == IF text = "8" THEN 8 ELSE 0

\* _parse_vector (scene_parser.py:446-454): three floats, or zeros when there
\* are fewer than three parts or one of them is no float
parse_vector(vector_str) ==
    IF vector_str = "(1, 2, 3)" THEN <<1, 2, 3>> ELSE <<0, 0, 0>>

\* SceneObject(...) of scene_parser.py:257-275 and 391-409
DefaultObject(name) ==
    [name |-> name, object_type |-> "MESH", location |-> <<0, 0, 0>>,
     rotation |-> <<0, 0, 0>>, scale |-> <<1, 1, 1>>, dimensions |-> <<1, 1, 1>>,
     vertex_count |-> 0, face_count |-> 0, materials |-> <<>>]

\* SceneLight(...) of scene_parser.py:308-322
DefaultLight(name) ==
    [name |-> name, light_type |-> "POINT", location |-> <<0, 0, 0>>,
     energy |-> 1, color |-> <<1, 1, 1, 1>>]

\* SceneCamera(...) of scene_parser.py:336-348
DefaultCamera(name) ==
    [name |-> name, location |-> <<0, 0, 0>>, focal_length |-> 50]

\* the scene metadata every parsing path of the text and fallback parsers
\* sets (scene_parser.py:370-378, 416-424)
DefaultMetadata ==
    [world_settings |-> "{}", scene_dimensions |-> <<10, 10, 3>>,
     render_engine |-> "CYCLES", unit_system |-> "METRIC",
     frame_range |-> <<1, 250>>, fps |-> 24]

RECURSIVE TotalVertices(_, _)
\* sum(obj.vertex_count for obj in objects) (scene_parser.py:372), from i on
TotalVertices(objects, i) ==
    IF i > Len(objects) THEN 0
    ELSE objects[i].vertex_count + TotalVertices(objects, i + 1)

\* SceneState(...) (scene_parser.py:365-379, 411-425)
MakeSceneState(objects, lights, cameras, total_vertices) ==
    [objects |-> objects, lights |-> lights, cameras |-> cameras,
     materials |-> <<>>, metadata |-> DefaultMetadata,
     total_vertices |-> total_vertices, total_objects |-> Len(objects)]

\* the locals of _parse_text_scene before its loop (scene_parser.py:237-245)
ScanStart ==
    [objects |-> <<>>, lights |-> <<>>, cameras |-> <<>>,
     current_object |-> None, current_light |-> None, current_camera |-> None,
     raised |-> FALSE]

\* current.field = value on the entity held in an Optional
SetField(current, field, value) == Some([current[1] EXCEPT ![field] = value])

\* one pass of the loop of _parse_text_scene (scene_parser.py:247-355): the
\* first branch of the if/elif chain whose condition holds
ScanLine(st, line) ==
    IF st.raised \/ (line.key = "" /\ line.value = "") THEN st
    ELSE IF line.key = "Object:"
    THEN [st EXCEPT !.objects = @ \o st.current_object,
                    !.current_object = Some(DefaultObject(line.value))]
    ELSE IF st.current_object # None
            /\ line.key \in {"Location:", "Rotation:", "Scale:", "Dimensions:"}
    THEN [st EXCEPT !.current_object =
            SetField(@, CASE line.key = "Location:" -> "location"
                          [] line.key = "Rotation:" -> "rotation"
                          [] line.key = "Scale:" -> "scale"
                          [] OTHER -> "dimensions",
                     parse_vector(line.value))]
    ELSE IF st.current_object # None /\ line.key = "Material:"
    THEN [st EXCEPT !.current_object =
            SetField(@, "materials", Append(@[1].materials, line.value))]
    ELSE IF st.current_object # None /\ line.key \in {"Vertices:", "Faces:"}
    THEN IF IsNumber(line.value)
         THEN [st EXCEPT !.current_object =
                 SetField(@, IF line.key = "Vertices:" THEN "vertex_count"
                             ELSE "face_count", NumberOf(line.value))]
         ELSE [st EXCEPT !.raised = TRUE]
    ELSE IF line.key = "Light:"
    THEN [st EXCEPT !.lights = @ \o st.current_light,
                    !.current_light = Some(DefaultLight(line.value))]
    ELSE IF st.current_light # None /\ line.key = "Energy:"
    THEN IF IsNumber(line.value)
         THEN [st EXCEPT !.current_light = SetField(@, "energy", NumberOf(line.value))]
         ELSE [st EXCEPT !.raised = TRUE]
    ELSE IF line.key = "Camera:"
    THEN [st EXCEPT !.cameras = @ \o st.current_camera,
                    !.current_camera = Some(DefaultCamera(line.value))]
    ELSE IF st.current_camera # None /\ line.key = "Focal Length:"
    THEN IF IsNumber(line.value)
         THEN [st EXCEPT !.current_camera =
                 SetField(@, "focal_length", NumberOf(line.value))]
         ELSE [st EXCEPT !.raised = TRUE]
    ELSE IF st.current_camera # None /\ line.key = "Location:"
    THEN [st EXCEPT !.current_camera =
            SetField(@, "location", parse_vector(line.value))]
    ELSE st

RECURSIVE Scan(_, _, _)
Scan(st, lines, i) ==
    IF i > Len(lines) THEN st ELSE Scan(ScanLine(st, lines[i]), lines, i + 1)

\* a _parse_text_scene without the "Add last items" step of
\* scene_parser.py:357-363
parse_text_scene_without_last_items(lines) ==
    LET st == Scan(ScanStart, lines, 1)
    IN IF st.raised THEN Raised("ValueError")
       ELSE Returned(MakeSceneState(st.objects, st.lights, st.cameras,
                                    TotalVertices(st.objects, 1)))

\* _parse_text_scene (scene_parser.py:233-379)
parse_text_scene(lines) ==
    LET st == Scan(ScanStart, lines, 1)
        objects == st.objects \o st.current_object
    IN IF st.raised THEN Raised("ValueError")
       ELSE Returned(MakeSceneState(objects, st.lights \o st.current_light,
                                    st.cameras \o st.current_camera,
                                    TotalVertices(objects, 1)))

\* _is_json (scene_parser.py:128-134): json.loads of a value that is no str
\* raises TypeError, which the method does not catch
is_json(scene_info) ==
    IF scene_info.type # "str" THEN Raised("TypeError")
    ELSE Returned(Len(scene_info.lines) = 1 /\ scene_info.lines[1].key = ""
                    /\ scene_info.lines[1].value \in JsonTexts)

\* _parse_json_scene (scene_parser.py:136-231) on the documents of JsonTexts:
\* float("a") of _tuple_from_list raises ValueError, data.get of a number
\* raises AttributeError
parse_json_scene(json_data) ==
    IF json_data = "{\"objects\": [{\"name\": \"Cube\", \"location\": [1, 2, 3]}]}"
    THEN Returned(MakeSceneState(
            <<[DefaultObject("Cube") EXCEPT !.location = <<1, 2, 3>>]>>,
            <<>>, <<>>, 0))
    ELSE IF json_data = "5" THEN Raised("AttributeError")
    ELSE Raised("ValueError")

\* 'object' in line.lower() or 'Object:' in line (scene_parser.py:388)
ContainsObjectWord(line) ==
    \/ line.key = "Object:"
    \/ line.value \in
         {"an object here",
          "{\"objects\": [{\"name\": \"Cube\", \"location\": [1, 2, 3]}]}",
          "{\"objects\": [{\"name\": \"Cube\", \"location\": [\"a\", 0, 0]}]}",
          "{'objects': [{'name': 'Cube'}]}",
          "tool_name='get_scene_info' tool_result='Object: Cube'"}

\* line.split(':')[-1].strip() if ':' in line else line (scene_parser.py:390)
FallbackName(line) ==
    CASE line.key # "" -> line.value
      [] line.value = "{\"objects\": [{\"name\": \"Cube\", \"location\": [1, 2, 3]}]}"
           -> "[1, 2, 3]}]}"
      [] line.value = "{\"objects\": [{\"name\": \"Cube\", \"location\": [\"a\", 0, 0]}]}"
           -> "[\"a\", 0, 0]}]}"
      [] line.value = "{'objects': [{'name': 'Cube'}]}" -> "'Cube'}]}"
      [] line.value = "tool_name='get_scene_info' tool_result='Object: Cube'"
           -> "Cube'"
      [] OTHER -> line.value

RECURSIVE FallbackObjects(_, _)
\* the loop of _fallback_parsing (scene_parser.py:386-409), from line i on
FallbackObjects(lines, i) ==
    IF i > Len(lines) THEN <<>>
    ELSE (IF ContainsObjectWord(lines[i])
          THEN <<DefaultObject(FallbackName(lines[i]))>> ELSE <<>>)
         \o FallbackObjects(lines, i + 1)

\* _fallback_parsing (scene_parser.py:381-425)
fallback_parsing(scene_info) ==
    MakeSceneState(FallbackObjects(scene_info.lines, 1), <<>>, <<>>, 0)

\* the first parsing attempt of parse_scene_info (scene_parser.py:120-123)
FirstAttempt(scene_info) ==
    LET j == is_json(scene_info)
    IN IF j.raised THEN j
       ELSE IF j.value THEN parse_json_scene(scene_info.lines[1].value)
       ELSE parse_text_scene(scene_info.lines)

\* a parse_scene_info without its try/except
parse_scene_info_unguarded(scene_info) == FirstAttempt(scene_info)

\* parse_scene_info (scene_parser.py:108-126)
parse_scene_info(scene_info) ==
    IF FirstAttempt(scene_info).raised
    THEN Returned(fallback_parsing(scene_info))
    ELSE FirstAttempt(scene_info)

\* scene_parser = SceneParser(); scene_parser.parse_scene_info(scene_info)
ParseSceneInfo ==
    /\ pc = "parse"
    /\ ret' = Some(parse_scene_info(arg[1]))
    /\ pc' = "parsed"
    /\ UNCHANGED <<ledger, last_call, last_status, requirement, curr_scene_info,
                   curr_viewport_screenshot, detailed_scene_state, fault,
                   evaluator_stub, planner_stub, executor_raises, files,
                   written_by, other, arg,
                   scene_requirement, calls, output, evaluate_result>>

InitParse ==
    /\ NewLedger
    /\ last_call = [op |-> "__init__", args |-> <<>>]
    /\ last_status = [k \in RegistryKeys |-> ""]
    /\ pc = "parse"
    /\ requirement = ""
    /\ curr_scene_info = <<>>
    /\ curr_viewport_screenshot = <<>>
    /\ detailed_scene_state = None
    /\ fault = "none"
    /\ evaluator_stub = <<>>
    /\ planner_stub = <<>>
    /\ executor_raises = {}
    /\ NoFiles
    /\ other = None
    /\ scene_requirement = None
    /\ calls = <<>>
    /\ output = TaskDecomposerFields
    /\ evaluate_result = EvaluateResultFields
    /\ arg \in {Some(i) : i \in ParseInputs}
    /\ ret = None

NextParse == ParseSceneInfo

SpecParse == InitParse /\ [][NextParse]_vars

----------------------------------------------------------------------------
(* Failure analyzer (failure_analyzer.py) *)

\* attempt numbers of a TaskContext go from 0 up to this bound
MaxAttempts == 5

(* Input domains of the failure analyzer *)
ErrorMessages ==
    {"poll() failed, context is incorrect", "Poll() Failed",
     "object.mode poll() failed", "operator poll error",
     "vertex group missing", "bad index", "material not found",
     "object not found", "not found", "constraint failed", "render engine",
     "out of memory", "syntax error", "value error",
     "vertex group index error", "boom"}
GeneratedCodes ==
    {"bpy.ops.mesh.primitive_cube_add()", "import bmesh",
     "mat = bpy.data.materials.new('RedMaterial')",
     "obj = bpy.data.objects['complex object']", "x = 1"}
AttemptNumbers == 0..MaxAttempts
\* fix texts handed to _estimate_success_probability by a direct caller; a
\* text is the sequence of the pieces it is put together from
FixTexts ==
    {<<"">>, <<"retry with error handling">>, <<"Use a Fallback">>,
     <<"use bmesh">>, <<"fallback to multiple passes">>}

\* TaskContext (failure_analyzer.py:27-39): the fields that decide the
\* failure type, the root cause, the fix text and the two recovery metrics
TaskContext(error_message, generated_code, attempt_number) ==
    [error_message |-> error_message, generated_code |-> generated_code,
     attempt_number |-> attempt_number]
TaskContexts ==
    {TaskContext(m, c, n) : m \in ErrorMessages, c \in GeneratedCodes,
                            n \in AttemptNumbers}

\* str.lower() on the texts of the model
Lower(text) ==
    CASE text = "Poll() Failed" -> "poll() failed"
      [] text = "mat = bpy.data.materials.new('RedMaterial')" ->
           "mat = bpy.data.materials.new('redmaterial')"
      [] text = "RedMaterial" -> "redmaterial"
      [] text = "DefaultMaterial" -> "defaultmaterial"
      [] text = "DefaultObject" -> "defaultobject"
      [] text = "Use a Fallback" -> "use a fallback"
      [] text = "# General error recovery\ntry:\n    " ->
           "# general error recovery\ntry:\n    "
      [] text = "\nexcept Exception as e:\n    print(f\"Error during operation: {e}\")\n    # Fallback operation\n    print(\"Applying fallback strategy...\")" ->
           "\nexcept exception as e:\n    print(f\"error during operation: {e}\")\n    # fallback operation\n    print(\"applying fallback strategy...\")"
      [] OTHER -> text

\* for each text of the model, which of the keywords the analyzer searches
\* for occur in it (Python's `keyword in text`, case-sensitive)
Substrings(text) ==
    CASE text = "poll() failed, context is incorrect" ->
           {"context is incorrect", "poll() failed", "poll"}
      [] text = "poll() failed" -> {"poll() failed", "poll"}
      [] text = "object.mode poll() failed" ->
           {"poll() failed", "poll", "object", "object.mode"}
      [] text = "operator poll error" -> {"poll"}
      [] text = "vertex group missing" -> {"vertex group", "vertex", "group"}
      [] text = "bad index" -> {"index"}
      [] text = "vertex group index error" ->
           {"vertex group", "index error", "vertex", "group", "index"}
      [] text = "material not found" ->
           {"material not found", "material", "not found"}
      [] text = "object not found" ->
           {"object not found", "object", "not found"}
      [] text = "not found" -> {"not found"}
      [] text = "constraint failed" -> {"constraint failed"}
      [] text = "render engine" -> {"render engine"}
      [] text = "out of memory" -> {"memory", "out of memory"}
      [] text = "syntax error" -> {"syntax error"}
      [] text = "value error" -> {"value error"}
      [] text = "bpy.ops.mesh.primitive_cube_add()" -> {"bpy.ops", "mesh"}
      [] text = "import bmesh" -> {"mesh", "bmesh"}
      [] text = "mat = bpy.data.materials.new('RedMaterial')" -> {"material"}
      [] text = "mat = bpy.data.materials.new('redmaterial')" -> {"material"}
      [] text = "obj = bpy.data.objects['complex object']" ->
           {"object", "complex"}
      [] text = "complex object" -> {"object", "complex"}
      [] text = "redmaterial" -> {"material"}
      [] text = "defaultmaterial" -> {"material"}
      [] text = "defaultobject" -> {"object"}
      [] text = "retry with error handling" -> {"try"}
      [] text = "use a fallback" -> {"fallback"}
      [] text = "use bmesh" -> {"mesh", "bmesh"}
      [] text = "fallback to multiple passes" -> {"fallback", "multiple"}
      [] text = "# general error recovery\ntry:\n    " -> {"try"}
      [] text = "# General error recovery\ntry:\n    " -> {"try"}
      [] text = "\nexcept exception as e:\n    print(f\"error during operation: {e}\")\n    # fallback operation\n    print(\"applying fallback strategy...\")" ->
           {"fallback"}
      [] text = "\nexcept Exception as e:\n    print(f\"Error during operation: {e}\")\n    # Fallback operation\n    print(\"Applying fallback strategy...\")" ->
           {"fallback"}
      [] OTHER -> {}

\* keyword in text
Contains(text, keyword) == keyword \in Substrings(text)

\* _build_failure_patterns (failure_analyzer.py:95-152), in dict order
failure_patterns ==
    <<[key |-> "context_error",
       value |-> <<"context is incorrect", "poll() failed", "context error",
                   "invalid context", "not in object mode">>],
      [key |-> "geometry_error",
       value |-> <<"mesh operation failed", "vertex group", "face index",
                   "edge loop", "geometry error">>],
      [key |-> "material_error",
       value |-> <<"material not found", "texture missing", "shader error",
                   "material slot">>],
      [key |-> "object_error",
       value |-> <<"object not found", "object does not exist",
                   "no active object", "object selection">>],
      [key |-> "constraint_error",
       value |-> <<"constraint failed", "parenting error",
                   "transform constraint">>],
      [key |-> "render_error",
       value |-> <<"render engine", "cycles error", "eevee error",
                   "render settings">>],
      [key |-> "memory_error",
       value |-> <<"memory", "out of memory", "allocation failed">>],
      [key |-> "syntax_error",
       value |-> <<"syntax error", "indentation error", "name error",
                   "attribute error">>],
      [key |-> "runtime_error",
       value |-> <<"runtime error", "value error", "type error",
                   "index error">>]>>

\* the positions in failure_patterns of the types one of whose patterns
\* occurs in the lower-cased error message (failure_analyzer.py:237-240)
MatchingTypes(error_msg) ==
    {i \in DOMAIN failure_patterns :
        \E j \in DOMAIN failure_patterns[i].value :
            Contains(error_msg, Lower(failure_patterns[i].value[j]))}

\* an _identify_failure_type that returns the last type of the table with
\* a matching pattern
identify_failure_type_last_match(task_context) ==
    LET matching == MatchingTypes(Lower(task_context.error_message))
    IN IF matching # {}
       THEN failure_patterns[CHOOSE i \in matching :
                                \A k \in matching : i >= k].key
       ELSE "unknown_error"

\* _identify_failure_type (failure_analyzer.py:233-252)
identify_failure_type(task_context) ==
    LET error_msg == Lower(task_context.error_message)
        generated_code == task_context.generated_code
        matching == MatchingTypes(error_msg)
    IN IF matching # {}
       THEN failure_patterns[CHOOSE i \in matching :
                                \A k \in matching : i <= k].key
       ELSE IF Contains(generated_code, "bpy.ops") /\ Contains(error_msg, "poll")
       THEN "context_error"
       ELSE IF /\ Contains(generated_code, "mesh")
               /\ (Contains(error_msg, "index") \/ Contains(error_msg, "vertex"))
       THEN "geometry_error"
       ELSE IF Contains(generated_code, "material")
       THEN "material_error"
       ELSE IF Contains(generated_code, "object") /\ Contains(error_msg, "not found")
       THEN "object_error"
       ELSE "unknown_error"

\* _determine_root_cause (failure_analyzer.py:254-286)
determine_root_cause(task_context, failure_type) ==
    LET error_msg == task_context.error_message
    IN CASE failure_type = "context_error" ->
              IF Contains(error_msg, "object.mode") THEN "incorrect_object_mode"
              ELSE IF Contains(error_msg, "poll")
              THEN "invalid_context_for_operation"
              ELSE "context_validation_failure"
         [] failure_type = "geometry_error" ->
              IF Contains(error_msg, "index") THEN "invalid_geometry_index"
              ELSE IF Contains(error_msg, "vertex") /\ Contains(error_msg, "group")
              THEN "missing_vertex_group"
              ELSE "geometry_validation_failure"
         [] failure_type = "material_error" ->
              IF Contains(error_msg, "not found") THEN "missing_material"
              ELSE "material_assignment_failure"
         [] failure_type = "object_error" ->
              IF Contains(error_msg, "not found") THEN "object_does_not_exist"
              ELSE "object_access_failure"
         [] OTHER -> "unknown_root_cause"

\* _extract_material_name (failure_analyzer.py:503-515) on the generated
\* codes of the model
extract_material_name(code) ==
    IF code = "mat = bpy.data.materials.new('RedMaterial')"
    THEN "RedMaterial" ELSE "DefaultMaterial"

\* _extract_object_name (failure_analyzer.py:517-529) on the generated
\* codes of the model
extract_object_name(code) ==
    IF code = "obj = bpy.data.objects['complex object']"
    THEN "complex object" ELSE "DefaultObject"

\* _generate_suggested_fix (failure_analyzer.py:352-407): the text, as the
\* sequence of the template pieces and the texts put between them
generate_suggested_fix(task_context, root_cause) ==
    CASE root_cause = "incorrect_object_mode" ->
           <<"# Ensure correct object mode\nif bpy.context.mode != 'OBJECT':\n    bpy.ops.object.mode_set(mode='OBJECT')\n\n# Safe object operation\nbpy.ops.object.select_all(action='DESELECT')\nbpy.context.view_layer.objects.active = target_object\ntarget_object.select_set(True)">>
      [] root_cause = "missing_material" ->
           <<"# Ensure material exists\nmaterial = bpy.data.materials.get('",
             extract_material_name(task_context.generated_code),
             "')\nif not material:\n    material = bpy.data.materials.new(name='",
             extract_material_name(task_context.generated_code),
             "')\n    material.use_nodes = True\n    \n# Safe material assignment\nif target_object.data.materials:\n    target_object.data.materials[0] = material\nelse:\n    target_object.data.materials.append(material)">>
      [] root_cause = "object_does_not_exist" ->
           <<"# Safe object access\nobj = bpy.data.objects.get('",
             extract_object_name(task_context.generated_code),
             "')\nif not obj:\n    # Create basic object or find alternative\n    bpy.ops.mesh.primitive_cube_add()\n    obj = bpy.context.active_object\n    obj.name = '",
             extract_object_name(task_context.generated_code),
             "'">>
      [] OTHER ->
           <<"# General error recovery\ntry:\n    ",
             task_context.generated_code,
             "\nexcept Exception as e:\n    print(f\"Error during operation: {e}\")\n    # Fallback operation\n    print(\"Applying fallback strategy...\")">>

\* keyword in suggested_fix.lower() (failure_analyzer.py:473-478)
FixMentions(suggested_fix, keyword) ==
    \E i \in DOMAIN suggested_fix : Contains(Lower(suggested_fix[i]), keyword)

\* base_complexity (failure_analyzer.py:444-455)
base_complexity ==
    <<[key |-> "context_error", value |-> 2],
      [key |-> "geometry_error", value |-> 4],
      [key |-> "material_error", value |-> 2],
      [key |-> "object_error", value |-> 3],
      [key |-> "constraint_error", value |-> 3],
      [key |-> "render_error", value |-> 4],
      [key |-> "memory_error", value |-> 5],
      [key |-> "syntax_error", value |-> 1],
      [key |-> "runtime_error", value |-> 2],
      [key |-> "unknown_error", value |-> 3]>>

\* min(a, b) and max(a, b)
min(a, b) == IF a <= b THEN a ELSE b
max(a, b) == IF a >= b THEN a ELSE b

\* _calculate_recovery_complexity (failure_analyzer.py:441-462)
calculate_recovery_complexity(task_context, root_cause) ==
    LET complexity == IF HasKey(base_complexity, root_cause)
                      THEN Lookup(base_complexity, root_cause) ELSE 3
    IN min(complexity + min(task_context.attempt_number - 1, 2), 5)

\* an estimate that returns base_prob - failure_penalty as it is
estimate_success_probability_unclamped(task_context, suggested_fix) ==
    80 - (task_context.attempt_number - 1) * 15

\* _estimate_success_probability (failure_analyzer.py:464-481), in hundredths
estimate_success_probability(task_context, suggested_fix) ==
    LET failure_penalty == (task_context.attempt_number - 1) * 15
        simple == IF FixMentions(suggested_fix, "try")
                     \/ FixMentions(suggested_fix, "fallback")
                  THEN 10 ELSE 0
        complex == IF \E keyword \in {"bmesh", "complex", "multiple"} :
                         FixMentions(suggested_fix, keyword)
                   THEN 10 ELSE 0
        base_prob == 80 + simple - complex
    IN max(30, min(95, base_prob - failure_penalty))

\* analyze_task_failure (failure_analyzer.py:49-93): the FailureAnalysis,
\* without the texts that describe the issue, the scene impact, the
\* alternatives and the prevention strategy
analyze_task_failure(task_context) ==
    LET failure_type == identify_failure_type(task_context)
        root_cause == determine_root_cause(task_context, failure_type)
        suggested_fix == generate_suggested_fix(task_context, root_cause)
    IN [failure_type |-> failure_type,
        root_cause |-> root_cause,
        suggested_fix |-> suggested_fix,
        recovery_complexity |->
            calculate_recovery_complexity(task_context, root_cause),
        likely_success_rate |->
            estimate_success_probability(task_context, suggested_fix)]

\* FailureAnalyzer().analyze_task_failure(task_context)
AnalyzeTaskFailure ==
    /\ pc = "analyze"
    /\ ret' = Some(analyze_task_failure(arg[1]))
    /\ pc' = "analyzed"
    /\ UNCHANGED <<ledger, last_call, last_status, requirement, curr_scene_info,
                   curr_viewport_screenshot, detailed_scene_state, fault,
                   evaluator_stub, planner_stub, executor_raises, files,
                   written_by, other, arg,
                   scene_requirement, calls, output, evaluate_result>>

\* FailureAnalyzer()._estimate_success_probability(task_context, suggested_fix)
EstimateSuccessProbability ==
    /\ pc = "estimate"
    /\ ret' = Some(estimate_success_probability(arg[1].task_context,
                                                arg[1].suggested_fix))
    /\ pc' = "estimated"
    /\ UNCHANGED <<ledger, last_call, last_status, requirement, curr_scene_info,
                   curr_viewport_screenshot, detailed_scene_state, fault,
                   evaluator_stub, planner_stub, executor_raises, files,
                   written_by, other, arg,
                   scene_requirement, calls, output, evaluate_result>>

\* a process that has constructed a ContextManager and is about to call one
\* of the services
InitService ==
    /\ NewLedger
    /\ last_call = [op |-> "__init__", args |-> <<>>]
    /\ last_status = [k \in RegistryKeys |-> ""]
    /\ requirement = ""
    /\ curr_scene_info = <<>>
    /\ curr_viewport_screenshot = <<>>
    /\ detailed_scene_state = None
    /\ fault = "none"
    /\ evaluator_stub = <<>>
    /\ planner_stub = <<>>
    /\ executor_raises = {}
    /\ NoFiles
    /\ other = None
    /\ scene_requirement = None
    /\ calls = <<>>
    /\ output = TaskDecomposerFields
    /\ evaluate_result = EvaluateResultFields
    /\ ret = None

InitAnalyzer ==
    /\ InitService
    /\ \/ /\ pc = "analyze"
          /\ arg \in {Some(t) : t \in TaskContexts}
       \/ /\ pc = "estimate"
          /\ arg \in {Some([task_context |-> t, suggested_fix |-> f]) :
                        t \in {TaskContext("boom", "x = 1", n) :
                                 n \in AttemptNumbers},
                        f \in FixTexts}

NextAnalyzer == AnalyzeTaskFailure \/ EstimateSuccessProbability

SpecAnalyzer == InitAnalyzer /\ [][NextAnalyzer]_vars

----------------------------------------------------------------------------
(* Environment probe (environment_probe.py) *)

\* lines of the scene descriptions handed to the probe
ProbeLines ==
    {Line("Object:", "A"), Line("Object:", "B"),
     Line("Location:", "(4, 0, 0)"), Line("Dimensions:", "(2, 1, 1)"),
     Line("Dimensions:", "1,2"), Line("Light:", "Sun")}
\* inputs of analyze_complete_scene: a text of up to MaxLines lines, or a
\* value that is no str
ProbeInputs ==
    {StrInput(ls) : ls \in UNION {[1..n -> ProbeLines] : n \in 0..MaxLines}}
    \cup {ObjectInput("None")}

\* a number num / den
Frac(num, den) == [num |-> num, den |-> den]
FracLeq(a, b) == a.num * b.den <= b.num * a.den
\* max(0.0, min(1.0, score))
Clamp01(score) ==
    IF score.num < 0 THEN Frac(0, 1)
    ELSE IF score.num > score.den THEN Frac(1, 1)
    ELSE score

\* max(S) and min(S) of a set of numbers
SetMax(S) == CHOOSE x \in S : \A y \in S : y <= x
SetMin(S) == CHOOSE x \in S : \A y \in S : x <= y

RECURSIVE SumFrom(_, _)
\* sum(s[i:])
SumFrom(s, i) == IF i > Len(s) THEN 0 ELSE s[i] + SumFrom(s, i + 1)

\* _parse_vector (environment_probe.py:408-416): three floats, or zeros
\* when there are fewer than three parts or one of them is no float
probe_parse_vector(vector_str) ==
    CASE vector_str = "(4, 0, 0)" -> <<4, 0, 0>>
      [] vector_str = "(2, 1, 1)" -> <<2, 1, 1>>
      [] OTHER -> <<0, 0, 0>>

\* the dict of environment_probe.py:142-149
NewProbeObject(name) ==
    [name |-> name, location |-> <<0, 0, 0>>, dimensions |-> <<1, 1, 1>>]

\* one pass of the loop of environment_probe.py:133-161 over the state
\* (objects, current_object)
ProbeScanLine(st, line) ==
    IF line.key = "Object:"
    THEN [objects |-> st.objects \o st.current_object,
          current_object |-> Some(NewProbeObject(line.value))]
    ELSE IF st.current_object # None
    THEN IF line.key = "Location:"
         THEN [st EXCEPT !.current_object[1].location =
                              probe_parse_vector(line.value)]
         ELSE IF line.key = "Dimensions:"
         THEN [st EXCEPT !.current_object[1].dimensions =
                              probe_parse_vector(line.value)]
         ELSE st
    ELSE st

RECURSIVE ProbeScan(_, _, _)
ProbeScan(st, lines, i) ==
    IF i > Len(lines) THEN st
    ELSE ProbeScan(ProbeScanLine(st, lines[i]), lines, i + 1)

\* _parse_scene_objects (environment_probe.py:125-167): current_object is
\* bound only inside the isinstance branch, so the test of line 164 raises
\* for a value that is no str
parse_scene_objects(scene_info) ==
    IF scene_info.type # "str" THEN Raised("UnboundLocalError")
    ELSE LET st == ProbeScan([objects |-> <<>>, current_object |-> None],
                             scene_info.lines, 1)
         IN Returned(st.objects \o st.current_object)

\* _analyze_object_metrics (environment_probe.py:169-206): name, position,
\* dimensions and volume of each object
analyze_object_metrics(objects) ==
    [i \in 1..Len(objects) |->
        [name |-> objects[i].name,
         position |-> objects[i].location,
         dimensions |-> objects[i].dimensions,
         volume |-> objects[i].dimensions[1] * objects[i].dimensions[2]
                      * objects[i].dimensions[3]]]

\* n times the sum of the squared distances of the positions from their
\* mean on one axis, which is n * sum(x^2) - sum(x)^2
ScaledVariance(objects, axis) ==
    LET xs == [i \in 1..Len(objects) |-> objects[i].position[axis]]
        sq == [i \in 1..Len(objects) |-> xs[i] * xs[i]]
    IN Len(objects) * SumFrom(sq, 1) - SumFrom(xs, 1) * SumFrom(xs, 1)

\* _calculate_alignment_consistency (environment_probe.py:488-505):
\* 1 - m / (m + 1) with m the largest variance plus 1e-6
calculate_alignment_consistency(objects) ==
    IF Len(objects) < 2 THEN Frac(1, 1)
    ELSE LET n == Len(objects)
             v == SetMax({ScaledVariance(objects, axis) : axis \in 1..3})
         IN Clamp01(Frac(n * 1000000, v * 1000000 + n * 1000000 + n))

\* _calculate_proportional_balance (environment_probe.py:507-527):
\* 1 - variance / (avg^2 + 1e-6) over the volumes
calculate_proportional_balance(objects) ==
    IF Len(objects) < 2 THEN Frac(1, 1)
    ELSE LET n == Len(objects)
             volumes == [i \in 1..n |-> objects[i].volume]
             sq == [i \in 1..n |-> volumes[i] * volumes[i]]
             total_volume == SumFrom(volumes, 1)
             w == n * SumFrom(sq, 1) - total_volume * total_volume
             d == total_volume * total_volume * 1000000 + n * n
         IN IF total_volume = 0 THEN Frac(1, 1)
            ELSE Clamp01(Frac(d - w * 1000000, d))

\* the extent of the objects on one axis, in halves of a unit
\* (environment_probe.py:285-290)
Extent(object_metrics, axis) ==
    LET n == Len(object_metrics)
        lo == SetMin({2 * object_metrics[i].position[axis]
                        - object_metrics[i].dimensions[axis] : i \in 1..n})
        hi == SetMax({2 * object_metrics[i].position[axis]
                        + object_metrics[i].dimensions[axis] : i \in 1..n})
    IN hi - lo

\* the branch of environment_probe.py:256-266: the SpatialMetrics of a scene
\* without objects
EmptySpatialMetrics ==
    [room_dimensions |-> <<0, 0, 0>>,
     usable_volume |-> 0,
     object_density |-> Frac(0, 1),
     traffic_flow_score |-> Frac(0, 1),
     alignment_consistency |-> Frac(0, 1),
     proportional_balance |-> Frac(0, 1)]

\* _analyze_spatial_metrics (environment_probe.py:254-324): room dimensions
\* in halves of a unit, usable volume in eighths of a cubic unit
analyze_spatial_metrics(object_metrics) ==
    IF object_metrics = <<>> THEN EmptySpatialMetrics
    ELSE LET room_dimensions == <<max(Extent(object_metrics, 1), 10),
                                  max(Extent(object_metrics, 2), 10),
                                  max(Extent(object_metrics, 3), 5)>>
             usable_volume == room_dimensions[1] * room_dimensions[2]
                                * room_dimensions[3]
             total_object_volume ==
                 SumFrom([i \in 1..Len(object_metrics) |->
                             object_metrics[i].volume], 1)
             object_density == Frac(8 * total_object_volume, usable_volume)
             rest == Frac(usable_volume - 8 * total_object_volume,
                          usable_volume)
         IN [room_dimensions |-> room_dimensions,
             usable_volume |-> usable_volume,
             object_density |-> object_density,
             traffic_flow_score |->
                 IF FracLeq(Frac(1, 10), rest) THEN rest ELSE Frac(1, 10),
             alignment_consistency |->
                 calculate_alignment_consistency(object_metrics),
             proportional_balance |->
                 calculate_proportional_balance(object_metrics)]

\* analyze_complete_scene (environment_probe.py:76-123): the error, the
\* object metrics and the spatial metrics of the report
analyze_complete_scene(scene_info) ==
    LET basic_objects == parse_scene_objects(scene_info)
        object_metrics == analyze_object_metrics(basic_objects.value)
    IN IF basic_objects.raised
       THEN [error |-> Some(basic_objects.value), objects |-> <<>>,
             spatial |-> None]
       ELSE [error |-> None, objects |-> object_metrics,
             spatial |-> Some(analyze_spatial_metrics(object_metrics))]

\* EnvironmentProbe().analyze_complete_scene(scene_info)
AnalyzeCompleteScene ==
    /\ pc = "probe"
    /\ ret' = Some(analyze_complete_scene(arg[1]))
    /\ pc' = "probed"
    /\ UNCHANGED <<ledger, last_call, last_status, requirement, curr_scene_info,
                   curr_viewport_screenshot, detailed_scene_state, fault,
                   evaluator_stub, planner_stub, executor_raises, files,
                   written_by, other, arg,
                   scene_requirement, calls, output, evaluate_result>>

InitProbe ==
    /\ InitService
    /\ pc = "probe"
    /\ arg \in {Some(i) : i \in ProbeInputs}

NextProbe == AnalyzeCompleteScene

SpecProbe == InitProbe /\ [][NextProbe]_vars

----------------------------------------------------------------------------
(* execute(requirement) (executor.py:16-255) *)

\* executor.py:14
MAX_ITERS == 5
\* the acceptance threshold of executor.py:222, in hundredths
ACCEPT_SCORE == 90

(* Input domains of execute *)
ExecRequirements == {"a cozy room", "a street at night"}
\* texts the 3D tool returns for get_scene_info
SceneInfoTexts == {"Object: Cube", "Light: Sun"}
\* what call_tool returns: the list built at mcp_client.py:36-53
SceneInfoReturns == {<<>>} \cup {<<[tool_name |-> "get_scene_info", tool_result |-> t]>> :
                                   t \in SceneInfoTexts}
ScreenshotReturns == {<<>>, <<[tool_name |-> "get_viewport_screenshot", image_data |-> "b64"]>>}
EvaluatorStubs == {[k \in 1..MAX_ITERS |-> 95],
                   [k \in 1..MAX_ITERS |-> 10],
                   [k \in 1..MAX_ITERS |-> IF k < 3 THEN 10 ELSE 95]}
PlannerStubs == {<<"add lamp">>, <<"add table", "add lamp", "add camera">>}
RaisingSets == {{}, {1}, {2}}

\* str(item) of the ToolResult that call_tool returned (schemas.py:14-16)
ToolResultRepr(item) ==
    IF item.tool_result = "Object: Cube"
    THEN "tool_name='get_scene_info' tool_result='Object: Cube'"
    ELSE "tool_name='get_scene_info' tool_result='Light: Sun'"

\* the names scene_parser.py binds at module level
SceneParserModuleNames ==
    {"re", "json", "dataclass", "asdict", "SceneObject", "SceneLight",
     "SceneCamera", "SceneMaterial", "SceneState", "SceneParser"}

\* execute() has raised or returned
ExecuteEnded == pc \in {"raised", "returned"}

Raise(e) ==
    /\ pc' = "raised"
    /\ fault' = e

\* executor.py:17-26
exec_setup ==
    /\ pc = "start"
    /\ initial_requirement' = requirement
    /\ iterations' = <<>>
    /\ current_iteration' = None
    /\ final_result' = None
    /\ scene_state_history' = <<>>
    /\ component_registry' = <<>>
    /\ last_call' = [op |-> "set_initial_requirement", args |-> <<>>]
    /\ pc' = "l29"
    /\ UNCHANGED <<last_status, requirement, curr_scene_info, curr_viewport_screenshot,
                   detailed_scene_state, fault, evaluator_stub, planner_stub,
                   executor_raises, files, written_by, other, arg, ret,
          scene_requirement, calls, output, evaluate_result>>

\* executor.py:29; an exception of the tool call is not handled
exec_get_scene_info ==
    /\ pc = "l29"
    /\ \/ \E r \in SceneInfoReturns :
            /\ curr_scene_info' = r
            /\ pc' = "l30"
            /\ UNCHANGED fault
       \/ /\ Raise("ToolError")
          /\ UNCHANGED curr_scene_info
    /\ UNCHANGED <<ledger, last_call, last_status, requirement, curr_viewport_screenshot,
                   detailed_scene_state, evaluator_stub, planner_stub,
                   executor_raises, files, written_by, other, arg, ret,
          scene_requirement, calls, output, evaluate_result>>

\* executor.py:30
exec_get_viewport_screenshot ==
    /\ pc = "l30"
    /\ \/ \E r \in ScreenshotReturns :
            /\ curr_viewport_screenshot' = r
            /\ pc' = "l33"
            /\ UNCHANGED fault
       \/ /\ Raise("ToolError")
          /\ UNCHANGED curr_viewport_screenshot
    /\ UNCHANGED <<ledger, last_call, last_status, requirement, curr_scene_info,
                   detailed_scene_state, evaluator_stub, planner_stub,
                   executor_raises, files, written_by, other, arg, ret,
          scene_requirement, calls, output, evaluate_result>>

\* executor.py:33; curr_scene_info[0] of an empty list raises IndexError
exec_parse_scene_info ==
    /\ pc = "l33"
    /\ IF curr_scene_info = <<>>
       THEN /\ Raise("IndexError")
            /\ UNCHANGED detailed_scene_state
       ELSE /\ detailed_scene_state' =
                 Some(parse_scene_info(ObjectInput(ToolResultRepr(curr_scene_info[1]))).value)
            /\ pc' = "l34"
            /\ UNCHANGED fault
    /\ UNCHANGED <<ledger, last_call, last_status, requirement, curr_scene_info,
                   curr_viewport_screenshot, evaluator_stub, planner_stub,
                   executor_raises, files, written_by, other, arg, ret,
          scene_requirement, calls, output, evaluate_result>>

\* executor.py:34, which runs scene_state_to_dict (executor.py:258-261):
\* `from .scene_parser import scene_parser` raises ImportError unless the
\* module binds that name
exec_scene_state_to_dict ==
    /\ pc = "l34"
    /\ IF "scene_parser" \in SceneParserModuleNames
       THEN /\ pc' = "l35"
            /\ UNCHANGED fault
       ELSE Raise("ImportError")
    /\ UNCHANGED <<ledger, last_call, last_status, requirement, curr_scene_info,
                   curr_viewport_screenshot, detailed_scene_state,
                   evaluator_stub, planner_stub, executor_raises, files,
                   written_by, other, arg, ret,
                   scene_requirement, calls, output, evaluate_result>>

\* a call of execute(requirement) with its collaborators
InitExecute ==
    /\ NewLedger
    /\ last_call = [op |-> "__init__", args |-> <<>>]
    /\ last_status = [k \in RegistryKeys |-> ""]
    /\ pc = "start"
    /\ requirement \in ExecRequirements
    /\ curr_scene_info = <<>>
    /\ curr_viewport_screenshot = <<>>
    /\ detailed_scene_state = None
    /\ fault = "none"
    /\ evaluator_stub \in EvaluatorStubs
    /\ planner_stub \in PlannerStubs
    /\ executor_raises \in RaisingSets
    /\ NoFiles
    /\ other = None
    /\ scene_requirement = None
    /\ calls = <<>>
    /\ output \in Outputs
    /\ evaluate_result \in EvaluateResults
    /\ arg = None
    /\ ret = None

NextExecute ==
    \/ exec_setup
    \/ exec_get_scene_info
    \/ exec_get_viewport_screenshot
    \/ exec_parse_scene_info
    \/ exec_scene_state_to_dict

SpecExecute == InitExecute /\ [][NextExecute]_vars

----------------------------------------------------------------------------
(* A process that works on a ledger, writes it to files and reads files     *)
(* back, into the same ledger or into a new one.  It numbers its iterations *)
(* as execute does and uses one component.                                  *)

\* the records a write of the ledger puts into a file, the file included
DocSize(doc) ==
    1 + SumSizes(doc.iterations) + Len(doc.scene_state_history)
      + Len(doc.component_registry)

RECURSIVE FilesSize(_)
\* the records held by the files of the paths in ps
FilesSize(ps) ==
    IF ps = {} THEN 0
    ELSE LET p == CHOOSE q \in ps : TRUE
         IN (IF files[p] = None THEN 0 ELSE DocSize(files[p][1]))
            + FilesSize(ps \ {p})

\* the ledger and the files together hold fewer than MaxRecords records
PersistRoom == LedgerSize + FilesSize(FilePaths) < MaxRecords

\* the ledger and the files hold at most MaxRecords records once the ledger
\* is written to filepath
RoomToWrite(filepath) ==
    LedgerSize + FilesSize(FilePaths \ {filepath}) + DocSize(get_full_context)
        <= MaxRecords

\* the ledger methods of the first part of the module are recorded under
\* one name here, the methods that read or write files under their own
LedgerMethod(op) == "ledger_method"

PersistCalled(op, args) ==
    /\ Called(op, args)
    /\ UNCHANGED <<last_status, pc, requirement, curr_scene_info,
                   curr_viewport_screenshot, detailed_scene_state, fault,
                   evaluator_stub, planner_stub, executor_raises, other,
                   arg, ret,
                   scene_requirement, calls, output, evaluate_result>>

PersistSetInitialRequirement ==
    \E r \in Requirements :
        /\ set_initial_requirement(r)
        /\ PersistCalled(LedgerMethod("set_initial_requirement"), <<>>)
        /\ UNCHANGED <<files, written_by>>

PersistStartIteration ==
    /\ IsOpen \/ PersistRoom
    /\ start_iteration(Len(iterations) + 1)
    /\ PersistCalled(LedgerMethod("start_iteration"), <<>>)
    /\ UNCHANGED <<files, written_by>>

PersistStoreLeadResponse ==
    \E st \in SubTaskLists, raw \in RawResponses :
        /\ IsOpen => (PersistRoom \/ Open.lead_agent_response # None)
        /\ store_lead_response(st, raw)
        /\ PersistCalled(LedgerMethod("store_lead_response"), <<>>)
        /\ UNCHANGED <<files, written_by>>

PersistStoreCodeGeneration ==
    \E raw \in RawResponses :
        /\ IsOpen => PersistRoom
        /\ store_code_generation("add lamp", "put a lamp on the table", "code", raw)
        /\ PersistCalled(LedgerMethod("store_code_generation"), <<>>)
        /\ UNCHANGED <<files, written_by>>

PersistStoreEvaluation ==
    \E s \in Scores, sg \in Suggestions :
        /\ IsOpen => (PersistRoom \/ Open.scene_evaluation # None)
        /\ store_evaluation(s, sg)
        /\ PersistCalled(LedgerMethod("store_evaluation"), <<>>)
        /\ UNCHANGED <<files, written_by>>

PersistStoreToolResult ==
    \E t \in ToolNames :
        /\ IsOpen => PersistRoom
        /\ store_tool_result(t, "text", "{}")
        /\ PersistCalled(LedgerMethod("store_tool_result"), <<>>)
        /\ UNCHANGED <<files, written_by>>

PersistStoreSceneState ==
    \E sd \in SceneDicts :
        /\ IsOpen => PersistRoom
        /\ store_scene_state(sd)
        /\ PersistCalled(LedgerMethod("store_scene_state"), <<>>)
        /\ UNCHANGED <<files, written_by>>

PersistUpdateComponentProgress ==
    \E s \in Statuses :
        /\ IsOpen => PersistRoom
        /\ update_component_progress("light", "lamp", s, "None")
        /\ PersistCalled(LedgerMethod("update_component_progress"), <<>>)
        /\ UNCHANGED <<files, written_by>>

PersistCompleteIteration ==
    /\ complete_iteration
    /\ PersistCalled(LedgerMethod("complete_iteration"), <<>>)
    /\ UNCHANGED <<files, written_by>>

PersistSetFinalResult ==
    \E r \in FinalResults :
        /\ set_final_result(r)
        /\ PersistCalled(LedgerMethod("set_final_result"), <<>>)
        /\ UNCHANGED <<files, written_by>>

\* context.create_checkpoint(len(context.iterations)), as at executor.py:250
PersistCreateCheckpoint ==
    /\ RoomToWrite(CheckpointPath(Len(iterations)))
    /\ create_checkpoint(Len(iterations))
    /\ PersistCalled("create_checkpoint", <<CheckpointPath(Len(iterations))>>)

\* context.save_to_file("execution_context.json"), as at executor.py:253
PersistSaveToFile ==
    /\ RoomToWrite("execution_context.json")
    /\ save_to_file("execution_context.json")
    /\ PersistCalled("save_to_file", <<"execution_context.json">>)

\* ContextManager(): the process goes on with a new, empty ledger
PersistNewContextManager ==
    /\ initial_requirement' = ""
    /\ iterations' = <<>>
    /\ current_iteration' = None
    /\ final_result' = None
    /\ scene_state_history' = <<>>
    /\ component_registry' = <<>>
    /\ PersistCalled("__init__", <<>>)
    /\ UNCHANGED <<files, written_by>>

PersistLoadFromFile ==
    \E p \in FilePaths :
        /\ files[p] # None \/ p = "execution_context.json"
        \* the loaded ledger, its open iteration and the files fit the bound
        /\ files[p] # None =>
              DocSize(files[p][1]) - 1 + SumSizes(current_iteration)
                + FilesSize(FilePaths) <= MaxRecords
        /\ load_from_file(p)
        /\ PersistCalled("load_from_file",
                         <<p, IF NewLedger THEN "new ledger" ELSE "used ledger">>)

InitPersist == Init

NextPersist ==
    \/ PersistSetInitialRequirement
    \/ PersistStartIteration
    \/ PersistStoreLeadResponse
    \/ PersistStoreCodeGeneration
    \/ PersistStoreEvaluation
    \/ PersistStoreToolResult
    \/ PersistStoreSceneState
    \/ PersistUpdateComponentProgress
    \/ PersistCompleteIteration
    \/ PersistSetFinalResult
    \/ PersistCreateCheckpoint
    \/ PersistSaveToFile
    \/ PersistNewContextManager
    \/ PersistLoadFromFile

SpecPersist == InitPersist /\ [][NextPersist]_vars

----------------------------------------------------------------------------
(* A process that fills a ledger, constructs a second ContextManager while  *)
(* it keeps the first, fills the second, and asks either for its digest.    *)

DigestCalled(op, args) ==
    /\ Called(op, args)
    /\ UNCHANGED <<last_status, pc, requirement, curr_scene_info,
                   curr_viewport_screenshot, detailed_scene_state, fault,
                   evaluator_stub, planner_stub, executor_raises, files,
                   written_by, arg, ret,
                   scene_requirement, calls, output, evaluate_result>>

DigestSetInitialRequirement ==
    \E r \in Requirements :
        /\ set_initial_requirement(r)
        /\ DigestCalled(LedgerMethod("set_initial_requirement"), <<>>)
        /\ UNCHANGED other

DigestStartIteration ==
    /\ IsOpen \/ Room
    /\ start_iteration(Len(iterations) + 1)
    /\ DigestCalled(LedgerMethod("start_iteration"), <<>>)
    /\ UNCHANGED other

DigestStoreSceneState ==
    \E sd \in SceneDicts :
        /\ IsOpen
        /\ Room
        /\ store_scene_state(sd)
        /\ DigestCalled(LedgerMethod("store_scene_state"), <<>>)
        /\ UNCHANGED other

DigestUpdateComponentProgress ==
    \E t \in ComponentTypes, n \in ComponentNames :
        /\ IsOpen
        /\ Room
        /\ update_component_progress(t, n, "missing", "None")
        /\ DigestCalled(LedgerMethod("update_component_progress"), <<>>)
        /\ UNCHANGED other

DigestCompleteIteration ==
    /\ IsOpen
    /\ complete_iteration
    /\ DigestCalled(LedgerMethod("complete_iteration"), <<>>)
    /\ UNCHANGED other

\* context = ContextManager(), the first ledger staying with its owner
DigestSecondContextManager ==
    /\ other = None
    /\ other' = Some(ThisLedger)
    /\ initial_requirement' = ""
    /\ iterations' = <<>>
    /\ current_iteration' = None
    /\ final_result' = None
    /\ scene_state_history' = <<>>
    /\ component_registry' = <<>>
    /\ DigestCalled("__init__", <<>>)

\* context.get_context_for_llm(), as at executor.py:55: the returned text is
\* kept as the argument of the call record
DigestGetContextForLlm ==
    /\ UNCHANGED ledger
    /\ DigestCalled("get_context_for_llm", get_context_for_llm(ThisLedger))
    /\ UNCHANGED other

InitDigest == Init

NextDigest ==
    \/ DigestSetInitialRequirement
    \/ DigestStartIteration
    \/ DigestStoreSceneState
    \/ DigestUpdateComponentProgress
    \/ DigestCompleteIteration
    \/ DigestSecondContextManager
    \/ DigestGetContextForLlm

SpecDigest == InitDigest /\ [][NextDigest]_vars

----------------------------------------------------------------------------
(* Properties of the ledger, checked under Spec *)

StoreOps == {"store_lead_response", "store_code_generation", "store_evaluation",
             "store_tool_result", "store_scene_state", "update_component_progress"}

\* C7: a call of store_lead_response, store_code_generation, store_evaluation,
\* store_tool_result, store_scene_state or update_component_progress made while
\* no iteration is open returns and changes nothing of the ledger: the initial
\* requirement, the sealed iterations, the snapshot history, the registry and
\* the final result are as before, and still no iteration is open.
C7_StoreWithoutIterationIsNoOp ==
    [][(~IsOpen /\ last_call'.op \in StoreOps) =>
          /\ initial_requirement' = initial_requirement
          /\ iterations' = iterations
          /\ scene_state_history' = scene_state_history
          /\ component_registry' = component_registry
          /\ final_result' = final_result
          /\ current_iteration' = <<>>]_vars

\* a store_scene_state call made with no iteration open, on a ledger that
\* already holds a sealed iteration and a snapshot
C7_Witness ==
    /\ last_call.op = "store_scene_state"
    /\ ~IsOpen
    /\ iterations # <<>>
    /\ scene_state_history # <<>>

\* C8: start_iteration(n) leaves exactly one iteration open, and it is fresh:
\* its index is n, it has no lead response, no evaluation and no snapshot, and
\* its code-generation, tool-result and progress lists are empty; at no time
\* is more than one iteration open.
C8_StartIterationIsFresh ==
    /\ [](Len(current_iteration) <= 1)
    /\ [][last_call'.op = "start_iteration" =>
            /\ Len(current_iteration') = 1
            /\ current_iteration'[1].iteration = last_call'.args[1]
            /\ current_iteration'[1].lead_agent_response = <<>>
            /\ current_iteration'[1].scene_evaluation = <<>>
            /\ current_iteration'[1].scene_state = <<>>
            /\ current_iteration'[1].code_generation_tasks = <<>>
            /\ current_iteration'[1].tool_results = <<>>
            /\ current_iteration'[1].component_progress = <<>>]_vars

\* start_iteration(2) was just called on a ledger with a sealed iteration
C8_Witness ==
    /\ last_call.op = "start_iteration"
    /\ last_call.args = <<2>>
    /\ IsOpen
    /\ iterations # <<>>

\* C9: update_component_progress(type, name, status, details) made with an
\* iteration open appends one record with these values to the progress list
\* of the open iteration, keeps all earlier records of every iteration, and
\* makes that record the registry entry of the key of (type, name); at all
\* times the registry has an entry exactly for the keys updated so far, and
\* the entry carries the status of the most recent update of its key.
C9_RegistryLatestLogComplete ==
    /\ [][(IsOpen /\ last_call'.op = "update_component_progress") =>
            LET a == last_call'.args
                old == current_iteration[1].component_progress
                new == current_iteration'[1].component_progress
            IN /\ Len(new) = Len(old) + 1
               /\ SubSeq(new, 1, Len(old)) = old
               /\ new[Len(new)].component_type = a[1]
               /\ new[Len(new)].component_name = a[2]
               /\ new[Len(new)].status = a[3]
               /\ new[Len(new)].iteration_added = current_iteration[1].iteration
               /\ HasKey(component_registry', <<a[1], a[2]>>)
               /\ Lookup(component_registry', <<a[1], a[2]>>) = new[Len(new)]
               /\ iterations' = iterations]_vars
    /\ [](\A k \in RegistryKeys :
            IF last_status[k] = ""
            THEN ~HasKey(component_registry, k)
            ELSE /\ HasKey(component_registry, k)
                 /\ Lookup(component_registry, k).status = last_status[k])

\* the open iteration holds two records of one key with different statuses,
\* and the registry carries the status of the later one
C9_Witness ==
    /\ IsOpen
    /\ Len(Open.component_progress) = 2
    /\ Open.component_progress[1].component_type = Open.component_progress[2].component_type
    /\ Open.component_progress[1].component_name = Open.component_progress[2].component_name
    /\ Open.component_progress[1].status # Open.component_progress[2].status
    /\ Lookup(component_registry,
              <<Open.component_progress[2].component_type,
                Open.component_progress[2].component_name>>).status
         = Open.component_progress[2].status

\* C10: complete_iteration() made with an iteration open appends that
\* iteration as the last element of the sealed history, keeps the earlier
\* elements and leaves no iteration open; made with no iteration open it
\* changes nothing.  Neither case touches the rest of the session.
C10_CompleteIterationSeals ==
    [][last_call'.op = "complete_iteration" =>
          /\ IF IsOpen
             THEN /\ Len(iterations') = Len(iterations) + 1
                  /\ SubSeq(iterations', 1, Len(iterations)) = iterations
                  /\ iterations'[Len(iterations')] = current_iteration[1]
                  /\ current_iteration' = <<>>
             ELSE /\ iterations' = iterations
                  /\ current_iteration' = current_iteration
          /\ initial_requirement' = initial_requirement
          /\ scene_state_history' = scene_state_history
          /\ component_registry' = component_registry
          /\ final_result' = final_result]_vars

\* complete_iteration() just sealed a second iteration, one holding a record
C10_Witness ==
    /\ last_call.op = "complete_iteration"
    /\ ~IsOpen
    /\ Len(iterations) = 2
    /\ IterSize(iterations[2]) > 1

----------------------------------------------------------------------------
(* Statements about execute(), checked under SpecExecute.  A failure of a   *)
(* scene or screenshot retrieval of the INIT step is the environment's and  *)
(* is left out of every statement.                                          *)

EnvironmentFaults == {"ToolError", "IndexError"}
\* execute() has ended and no tool call of the INIT step failed
ExecuteEndedByItself == ExecuteEnded /\ fault \notin EnvironmentFaults

\* the first cycle in which the evaluator returns an accepted score, 0 if none
RECURSIVE FirstAccepted(_, _)
FirstAccepted(stub, k) ==
    IF k > MAX_ITERS THEN 0
    ELSE IF stub[k] >= ACCEPT_SCORE THEN k
    ELSE FirstAccepted(stub, k + 1)

\* what the evaluator of the model reports missing in every cycle
EvaluatorMissing == <<"floor lamp">>

\* C1: when the evaluator returns a score of at least 0.9 in cycle k, execute
\* returns after sealing cycle k, with exactly k sealed iterations and a final
\* result that has success = true and iteration count k (an evaluator that
\* always returns 0.95: one cycle, success = true).
C1_AcceptedScoreEndsLoop ==
    (ExecuteEndedByItself /\ FirstAccepted(evaluator_stub, 1) > 0) =>
        /\ pc = "returned"
        /\ Len(iterations) = FirstAccepted(evaluator_stub, 1)
        /\ final_result # <<>>
        /\ final_result[1].success = TRUE
        /\ final_result[1].iterations = FirstAccepted(evaluator_stub, 1)

\* C2: when every score of the evaluator is below 0.9, execute runs exactly
\* MAX_ITERS cycles and returns (it does not end in an exception) with a final
\* result that has success = false, iteration count MAX_ITERS and the missing
\* components of the last evaluation.
C2_ExhaustedBudgetEndsCleanly ==
    (ExecuteEndedByItself /\ FirstAccepted(evaluator_stub, 1) = 0) =>
        /\ pc = "returned"
        /\ Len(iterations) = MAX_ITERS
        /\ final_result # <<>>
        /\ final_result[1].success = FALSE
        /\ final_result[1].iterations = MAX_ITERS
        /\ final_result[1].final_missing_components = EvaluatorMissing

\* C3: whatever subtasks the planner returns and whichever of them raise when
\* executed, the first cycle is sealed and its sealed iteration holds one
\* code-generation entry per subtask, in the order of the planner's list.
C3_EverySubtaskRecorded ==
    ExecuteEndedByItself =>
        /\ Len(iterations) >= 1
        /\ Len(iterations[1].code_generation_tasks) = Len(planner_stub)
        /\ \A i \in 1..Len(planner_stub) :
              iterations[1].code_generation_tasks[i].task_name = planner_stub[i]

\* C4: every subtask of the first cycle has a component-progress record:
\* "complete" when its command execution succeeded, "failed" when it raised;
\* the exception of a subtask does not end execute.
C4_SubtaskOutcomeRecorded ==
    ExecuteEndedByItself =>
        /\ pc = "returned"
        /\ Len(iterations) >= 1
        /\ \A i \in 1..Len(planner_stub) :
              \E j \in 1..Len(iterations[1].component_progress) :
                  /\ iterations[1].component_progress[j].component_name = planner_stub[i]
                  /\ iterations[1].component_progress[j].status =
                        IF i \in executor_raises THEN "failed" ELSE "complete"

C6_InitialSnapshotRegistered ==
    (pc \notin {"start", "l29", "l30", "l33", "l34"} /\ fault \notin EnvironmentFaults) =>
        /\ Len(scene_state_history) >= 1
        /\ scene_state_history[1] = detailed_scene_state[1]

----------------------------------------------------------------------------
(* Properties of the ledger and its files, checked under SpecPersist *)

\* the methods that are not allowed to touch a sealed iteration
SealKeepingOps == {"ledger_method", "create_checkpoint", "save_to_file"}

\* C11: once an iteration has been sealed, a call of start_iteration, of a
\* store method, of update_component_progress, complete_iteration,
\* set_final_result, create_checkpoint or save_to_file leaves every sealed
\* iteration with its content and at its position: the sealed history
\* changes only by an append at its end.
C11_SealedHistoryOnlyGrows ==
    [][last_call'.op \in SealKeepingOps =>
          /\ Len(iterations') >= Len(iterations)
          /\ Len(iterations') <= Len(iterations) + 1
          /\ SubSeq(iterations', 1, Len(iterations)) = iterations]_vars

\* a sealed iteration holds an evaluation, and a later open iteration has
\* been given a different one
C11_Witness ==
    /\ last_call.op = "ledger_method"
    /\ Len(iterations) = 1
    /\ iterations[1].scene_evaluation # <<>>
    /\ IsOpen
    /\ Open.scene_evaluation # <<>>
    /\ Open.scene_evaluation # iterations[1].scene_evaluation

----------------------------------------------------------------------------
(* Statement about the digest, checked under SpecDigest *)

\* the latest snapshot of a ledger, None when it has none
LatestSnapshot(L) ==
    IF L.scene_state_history = <<>> THEN None
    ELSE Some(L.scene_state_history[Len(L.scene_state_history)])

\* the registry of a ledger as a mapping from key to status
RegistryStatuses(L) ==
    {<<L.component_registry[i].key, L.component_registry[i].value.status>> :
        i \in 1..Len(L.component_registry)}

\* two ledgers with the same initial requirement, latest snapshot,
\* key-to-status mapping and sealed iterations
SameContents(A, B) ==
    /\ A.initial_requirement = B.initial_requirement
    /\ LatestSnapshot(A) = LatestSnapshot(B)
    /\ RegistryStatuses(A) = RegistryStatuses(B)
    /\ A.iterations = B.iterations

\* C12: two ledgers with the same initial requirement, the same latest
\* snapshot, the same key-to-status mapping in the registry and the same
\* sealed iterations have the same digest text, whatever calls produced
\* them, and a call of get_context_for_llm changes nothing in the ledger.
C12_DigestDependsOnContentsOnly ==
    /\ []((other # <<>> /\ SameContents(other[1], ThisLedger)) =>
            get_context_for_llm(other[1]) = get_context_for_llm(ThisLedger))
    /\ [][last_call'.op = "get_context_for_llm" =>
            /\ initial_requirement' = initial_requirement
            /\ iterations' = iterations
            /\ current_iteration' = current_iteration
            /\ final_result' = final_result
            /\ scene_state_history' = scene_state_history
            /\ component_registry' = component_registry]_vars

----------------------------------------------------------------------------
(* Statements about the scene parser, checked under SpecParse *)

\* the structured or text parsing of the input raises
Malformed(scene_info) == FirstAttempt(scene_info).raised

ObjectWordLines(scene_info) ==
    {i \in 1..Len(scene_info.lines) : ContainsObjectWord(scene_info.lines[i])}

----------------------------------------------------------------------------
(* Failure analyzer claims, checked under SpecAnalyzer *)

\* C15: for every attempt number and every suggested-fix text, the success
\* probability the failure analyzer estimates lies in [0.3, 0.95] inclusive
\* (30..95 hundredths), both when _estimate_success_probability is called
\* with a fix text and when analyze_task_failure calls it with the fix it
\* generated
C15_SuccessProbabilityInRange ==
    /\ pc = "estimated" => ret[1] \in 30..95
    /\ pc = "analyzed" => ret[1].likely_success_rate \in 30..95

\* an estimate for the fix text "use bmesh" at the last attempt number: the
\* base probability minus the failure penalty is below 0.3, and 0.3 is
\* returned
C15_Witness ==
    /\ pc = "estimated"
    /\ arg[1].task_context.attempt_number = MaxAttempts
    /\ arg[1].suggested_fix = <<"use bmesh">>
    /\ 80 - 10 - (MaxAttempts - 1) * 15 < 30
    /\ ret[1] = 30

\* C16: the recovery complexity analyze_task_failure returns is the base
\* value of the failure type it identified (context 2, geometry 4, material
\* 2, object 3, constraint 3, render 4, memory 5, syntax 1, runtime 2) plus
\* min(attempt_number - 1, 2), capped at 5; an error text containing
\* "poll() failed" is classified context_error and gets complexity 2 at
\* attempt 1
C16_ComplexityFollowsFailureType ==
    pc = "analyzed" =>
        LET task_context == arg[1]
            analysis == ret[1]
        IN /\ analysis.failure_type # "unknown_error" =>
                analysis.recovery_complexity =
                    min(Lookup(base_complexity, analysis.failure_type)
                          + min(task_context.attempt_number - 1, 2), 5)
           /\ Contains(Lower(task_context.error_message), "poll() failed") =>
                /\ analysis.failure_type = "context_error"
                /\ task_context.attempt_number = 1 =>
                     analysis.recovery_complexity = 2

----------------------------------------------------------------------------
(* Environment probe claims, checked under SpecProbe *)

\* C17: for a scene with 0 objects or with 1 object, the spatial metrics the
\* environment probe produces have alignment_consistency = 1.0 and
\* proportional_balance = 1.0 exactly
C17_FewObjectsScoreOne ==
    pc = "probed" /\ ret[1].spatial # None /\ Len(ret[1].objects) < 2 =>
        LET spatial == ret[1].spatial[1]
        IN /\ spatial.alignment_consistency.num
                = spatial.alignment_consistency.den
           /\ spatial.proportional_balance.num
                = spatial.proportional_balance.den

----------------------------------------------------------------------------
(* Statements about the cycles of execute(), checked under SpecExecute *)

\* what the evaluator of the model returns as next_priority in every cycle
EvaluatorNextPriority == "add a floor lamp"

\* extract_component_type (executor.py:308-320) on the names of the model
extract_component_type(task_name) ==
    CASE task_name = "add camera" -> "camera"
      [] task_name \in {"add lamp", "add table"} -> "object"
      [] OTHER -> "component"

\* the requirement of executor.py:238 (one reported component)
SynthesizedRequirement ==
    "Add missing elements to complete the scene: floor lamp"

\* tasks_completed > 0 (executor.py:71, 98): a subtask of the planner's list
\* whose execution does not raise
SomeTaskCompleted == \E i \in DOMAIN planner_stub : i \notin executor_raises

\* the number of registry entries with status "missing" (executor.py:235)
RegistryMissingCount ==
    Cardinality({i \in DOMAIN component_registry :
                    component_registry[i].value.status = "missing"})

RECURSIVE SubtaskCalls(_, _)
SubtaskCalls(k, i) ==
    IF i > Len(planner_stub) THEN <<>>
    ELSE <<[to |-> "generator", cycle |-> k, subtask |-> i],
           [to |-> "executor", cycle |-> k, subtask |-> i]>>
         \o SubtaskCalls(k, i + 1)

CycleCalls(k) ==
    <<[to |-> "planner", cycle |-> k, subtask |-> 0]>>
    \o SubtaskCalls(k, 1)
    \o <<[to |-> "evaluator", cycle |-> k, subtask |-> 0]>>

RECURSIVE CyclesCalls(_, _)
\* the calls of the cycles k..n
CyclesCalls(k, n) ==
    IF k > n THEN <<>> ELSE CycleCalls(k) \o CyclesCalls(k + 1, n)

----------------------------------------------------------------------------
(* Statements about text parsing, checked under SpecParse *)

\* a line-oriented text (no JSON document, no value of another type)
IsText(scene_info) ==
    /\ scene_info.type = "str"
    /\ \A i \in 1..Len(scene_info.lines) : scene_info.lines[i] \in TextLines

\* the names on the header lines with the given prefix, in input order
HeaderNames(lines, key) ==
    LET headers == SelectSeq(lines, LAMBDA l : l.key = key)
    IN [i \in 1..Len(headers) |-> headers[i].value]

\* the names of the records of a collection, in order
RecordNames(records) == [i \in 1..Len(records) |-> records[i].name]

\* one record per header line, in input order
OneRecordPerHeader(scene_info, scene) ==
    /\ RecordNames(scene.objects) = HeaderNames(scene_info.lines, "Object:")
    /\ RecordNames(scene.lights) = HeaderNames(scene_info.lines, "Light:")
    /\ RecordNames(scene.cameras) = HeaderNames(scene_info.lines, "Camera:")

C23_AttributeGoesToLatestHeader ==
    pc = "parsed" /\ IsText(arg[1]) /\ ~Malformed(arg[1]) =>
        \A i \in 1..(Len(arg[1].lines) - 1) :
            (/\ arg[1].lines[i].key = "Camera:"
             /\ arg[1].lines[i + 1] = Line("Location:", "(1, 2, 3)")
             /\ \A j \in (i + 2)..Len(arg[1].lines) :
                   arg[1].lines[j].key # "Camera:")
            => /\ ret[1].value.cameras # <<>>
               /\ ret[1].value.cameras[Len(ret[1].value.cameras)].location
                     = <<1, 2, 3>>

----------------------------------------------------------------------------
(* Failure classification, checked under SpecAnalyzer *)

\* the order of the failure types the classification is stated for
StatedTypeOrder ==
    <<"context_error", "geometry_error", "material_error", "object_error",
      "constraint_error", "render_error", "memory_error", "syntax_error",
      "runtime_error">>

\* a keyword of the failure type occurs in the lower-cased error text
HasKeywordOf(failure_type, task_context) ==
    \E i \in DOMAIN failure_patterns :
        /\ failure_patterns[i].key = failure_type
        /\ \E j \in DOMAIN failure_patterns[i].value :
              Contains(Lower(task_context.error_message),
                       failure_patterns[i].value[j])

\* the failure types the secondary heuristics of failure_analyzer.py:243-250
\* can give for a task context, by their conditions
HeuristicTypes(task_context) ==
    LET error_msg == Lower(task_context.error_message)
        code == task_context.generated_code
    IN {t \in {"context_error", "geometry_error", "material_error",
                "object_error"} :
          \/ t = "context_error"
                /\ Contains(code, "bpy.ops") /\ Contains(error_msg, "poll")
          \/ t = "geometry_error" /\ Contains(code, "mesh")
                /\ (Contains(error_msg, "index") \/ Contains(error_msg, "vertex"))
          \/ t = "material_error" /\ Contains(code, "material")
          \/ t = "object_error"
                /\ Contains(code, "object") /\ Contains(error_msg, "not found")}

\* C24: the failure type analyze_task_failure reports is the first type, in
\* the order context, geometry, material, object, constraint, render,
\* memory, syntax, runtime, that has a keyword occurring in the lower-cased
\* error text; when no keyword of any type occurs, a secondary heuristic on
\* the generated code decides, and unknown_error is returned only when none
\* of the heuristics applies.
C24_FirstMatchingTypeWins ==
    pc = "analyzed" =>
        LET task_context == arg[1]
            failure_type == ret[1].failure_type
            matching == {i \in DOMAIN StatedTypeOrder :
                           HasKeywordOf(StatedTypeOrder[i], task_context)}
        IN IF matching # {}
           THEN \E i \in matching :
                   /\ failure_type = StatedTypeOrder[i]
                   /\ \A k \in matching : i <= k
           ELSE IF HeuristicTypes(task_context) # {}
           THEN failure_type \in HeuristicTypes(task_context)
           ELSE failure_type = "unknown_error"

\* the error text "vertex group index error" has a geometry keyword and a
\* runtime keyword, and was classified geometry_error
C24_Witness ==
    /\ pc = "analyzed"
    /\ arg[1].error_message = "vertex group index error"
    /\ HasKeywordOf("geometry_error", arg[1])
    /\ HasKeywordOf("runtime_error", arg[1])
    /\ ret[1].failure_type = "geometry_error"

----------------------------------------------------------------------------
(* Room dimensions and traffic flow, checked under SpecProbe *)

\* a = b for two numbers num / den
FracEq(a, b) == a.num * b.den = b.num * a.den

\* max(0.1, 1 - density)
MaxTenthOrRest(density) ==
    LET rest == Frac(density.den - density.num, density.den)
    IN IF FracLeq(Frac(1, 10), rest) THEN rest ELSE Frac(1, 10)

\* C25: for every scene, including scenes with 0 or 1 objects, the room
\* dimensions the environment probe computes are at least 5 on each
\* horizontal axis (10 halves) and at least 2.5 on the vertical axis
\* (5 halves), and the traffic-flow score equals max(0.1, 1 - density) and
\* is at least 0.1.
C25_RoomAndTrafficFloors ==
    pc = "probed" /\ ret[1].spatial # None =>
        LET spatial == ret[1].spatial[1]
        IN /\ spatial.room_dimensions[1] >= 10
           /\ spatial.room_dimensions[2] >= 10
           /\ spatial.room_dimensions[3] >= 5
           /\ FracEq(spatial.traffic_flow_score,
                     MaxTenthOrRest(spatial.object_density))
           /\ FracLeq(Frac(1, 10), spatial.traffic_flow_score)

----------------------------------------------------------------------------
(* What the registry and the snapshot history hold, against the           *)
(* iterations, checked under Spec                                          *)

\* the sealed iterations and the open one
KeptIterations ==
    {iterations[i] : i \in 1..Len(iterations)}
        \cup {current_iteration[i] : i \in 1..Len(current_iteration)}

ProgressIsKept(progress) ==
    \E it \in KeptIterations :
        \E i \in 1..Len(it.component_progress) : it.component_progress[i] = progress

SnapshotIsKept(scene_state) ==
    \E it \in KeptIterations : it.scene_state = Some(scene_state)

\* C28: after any sequence of ledger operations, every entry of the
\* component registry and every snapshot of the snapshot history also
\* appears in a sealed iteration or in the open iteration; a start_iteration
\* made while an iteration is open loses no recorded progress or snapshot.
C28_RegistryAndHistoryAreKept ==
    /\ \A i \in 1..Len(component_registry) :
            ProgressIsKept(component_registry[i].value)
    /\ \A i \in 1..Len(scene_state_history) :
            SnapshotIsKept(scene_state_history[i])

----------------------------------------------------------------------------
(* The open iteration across a load, checked under SpecPersist *)

\* load_from_file has just returned, having read its file
LoadedFromFile ==
    /\ last_call.op = "load_from_file"
    /\ files[last_call.args[1]] # None

\* C30: after load_from_file no iteration is open in the ledger, so that
\* an iteration open before the load cannot be appended to the loaded
\* sealed history by a later complete_iteration and store_* calls made
\* before the next start_iteration are no-ops.
C30_NoOpenIterationAfterLoad == LoadedFromFile => ~IsOpen

----------------------------------------------------------------------------
(* Incomplete outputs of the planner and the evaluator, checked under      *)
(* SpecExecute                                                             *)

\* LeadAgent.forward (lead_agent.py:54-74) on a prediction with the
\* attributes out
LeadAgent_forward(out) ==
    IF "sub_tasks" \in out
    THEN Returned([sub_tasks |-> planner_stub, raw_response |-> "raw"])
    ELSE Raised("AssertionError")

\* SceneEvaluator.forward (scene_evaluator.py:51-60) in cycle k on a
\* prediction with the attributes result: reading an attribute the
\* prediction does not have raises
SceneEvaluator_forward(result, k) ==
    IF EvaluateResultFields \subseteq result
    THEN Returned([match_score |-> evaluator_stub[k],
                   missing_components |-> EvaluatorMissing,
                   next_priority |-> EvaluatorNextPriority])
    ELSE Raised("AttributeError")

----------------------------------------------------------------------------
(* Cycles without progress, the count of successful subtasks and the end   *)
(* of execute, checked under SpecExecute                                   *)

tasks_completed ==
    Cardinality({i \in DOMAIN planner_stub : i \notin executor_raises})

\* the subtasks of the planner's list with a "complete" progress record in
\* the iteration it
CompleteSubtasks(it) ==
    {i \in DOMAIN planner_stub :
        \E j \in DOMAIN it.component_progress :
            /\ it.component_progress[j].component_name = planner_stub[i]
            /\ it.component_progress[j].status = "complete"}

====
